---------------------------- MODULE Spec2Model ----------------------------
(***************************************************************************)
(* A model of the sappyduck chess engine: the UCI command loop (uci.rs),   *)
(* the time manager (time_control.rs), the search and the evaluation       *)
(* (movepick.rs), the position wrapper (movegen.rs) and the constants and  *)
(* attack tables (defs.rs).                                                *)
(*                                                                         *)
(* Conventions.                                                            *)
(*  - An f64 score is an integer number of hundredths of a pawn: every     *)
(*    evaluation constant of defs.rs and movepick.rs has at most two       *)
(*    decimals.  f64::INFINITY is the number INFINITY, larger than every   *)
(*    finite score of the model.                                           *)
(*  - A BitBoard (u64) is the set of the squares whose bit is set; square  *)
(*    index = 8 * rank + file, a1 = 0, h8 = 63.                            *)
(*  - Milliseconds are integers.                                           *)
(***************************************************************************)
EXTENDS Integers, Sequences, FiniteSets, TLC

Max(a, b) == IF a >= b THEN a ELSE b

Min(a, b) == IF a <= b THEN a ELSE b

RECURSIVE SumTo(_, _)
\* f[0] + ... + f[n]
SumTo(f, n) == IF n < 0 THEN 0 ELSE f[n] + SumTo(f, n - 1)

\* The least element of a non-empty set of integers (u64::trailing_zeros of
\* a non-zero bitboard).
trailing_zeros(bb) == CHOOSE s \in bb : \A t \in bb : s <= t

\* The elements of a set of integers in increasing order.
RECURSIVE Ascending(_)
Ascending(S) ==
  IF S = {} THEN << >>
  ELSE LET m == trailing_zeros(S) IN << m >> \o Ascending(S \ {m})

(***************************************************************************)
(* defs.rs: constants                                                      *)
(***************************************************************************)
SQUARES == 64

Squares == 0 .. (SQUARES - 1)

White == "White"

Black == "Black"

Colors == {White, Black}

\* !color
Not(color) == IF color = White THEN Black ELSE White

\* color as usize
ColorIndex(color) == IF color = White THEN 0 ELSE 1

KING == "King"

QUEEN == "Queen"

ROOK == "Rook"

BISHOP == "Bishop"

KNIGHT == "Knight"

PAWN == "Pawn"

Pieces == {KING, QUEEN, ROOK, BISHOP, KNIGHT, PAWN}

FileOf(sq) == sq % 8

RankOf(sq) == sq \div 8

FILE_A == {s \in Squares : FileOf(s) = 0}

FILE_B == {s \in Squares : FileOf(s) = 1}

FILE_G == {s \in Squares : FileOf(s) = 6}

FILE_H == {s \in Squares : FileOf(s) = 7}

RANK_2 == {s \in Squares : RankOf(s) = 1}

RANK_7 == {s \in Squares : RankOf(s) = 6}

OPENING_MOVES == 20

INFINITY == 1000000000

NEG_INFINITY == -INFINITY

QUEEN_VALUE_NORMAL == 950

QUEEN_VALUE_THRESHOLD_ADVANTAGE == 940

QUEEN_VALUE_SECOND_QUEEN == 870

FIRST_ROOK_OPENING == 563

FIRST_ROOK_MIDDLEGAME == 573

FIRST_ROOK_THRESHOLD == 573

FIRST_ROOK_ENDGAME == 613

SECOND_ROOK_OPENING == 563

SECOND_ROOK_MIDDLEGAME == 553

SECOND_ROOK_THRESHOLD == 593

SECOND_ROOK_ENDGAME == 603

BISHOP_VALUE == 333

BISHOP_PAIR_MIDDLEGAME == 30

BISHOP_PAIR_THRESHOLD == 40

BISHOP_PAIR_ENDGAME == 50

KNIGHT_VALUE_OPENING == 325

KNIGHT_VALUE_MIDDLEGAME == 320

KNIGHT_VALUE_THRESHOLD == 320

KNIGHT_VALUE_ENDGAME == 320

PAWN_VALUE_OPENING == 100

PAWN_VALUE_MIDDLEGAME == 80

PAWN_VALUE_THRESHOLD == 90

PAWN_VALUE_ENDGAME == 100

BACK_RANK_MATE_BONUS == 500

SMOTHERED_MATE_BONUS == 400

KING_VALUE == INFINITY

Opening == "Opening"

Middlegame == "Middlegame"

Threshold == "Threshold"

Endgame == "Endgame"

(***************************************************************************)
(* The chess crate (external): Board, ChessMove, MoveGen.                  *)
(*                                                                         *)
(* The engine reads a Board only through piece_on, pieces, color_combined, *)
(* side_to_move and checkers, and changes it only through make_move_new;   *)
(* it never looks at the rules of chess.  The stand-in below keeps the     *)
(* piece placement and the side to move exactly, and replaces the rules by *)
(* a deterministic rule set driven by `tag`, which stands for the state a  *)
(* Board keeps besides the placement (castling rights, en passant square): *)
(* the number of legal moves, the moves and the check flag are functions   *)
(* of the board, a move relocates one piece and captures what stands on    *)
(* its destination, and kings are never captured.                          *)
(***************************************************************************)
\* Upper bound on the number of legal moves of a board.
MaxMoves == 3

\* The hidden board state ranges over 0 .. TagMod - 1.
TagMod == 12

\* Option<T>: None is the empty sequence, Some(x) the sequence of x alone.
None == << >>

Some(x) == << x >>

\* opt.unwrap()
unwrap(opt) == opt[1]

\* The bitboards of a placement given as a list of <<square, piece, colour>>:
\* one per piece type and one per colour, as a Board keeps them.
Place(list) ==
  [pieces |-> [p \in Pieces |->
                 {list[i][1] : i \in {j \in 1 .. Len(list) : list[j][2] = p}}],
   color_combined |-> [c \in Colors |->
                 {list[i][1] : i \in {j \in 1 .. Len(list) : list[j][3] = c}}]]

\* rnbqkbnr/pppppppp/8/8/8/8/PPPPPPPP/RNBQKBNR
START_BOARD ==
  Place(<<
      <<0, ROOK, White>>, <<1, KNIGHT, White>>, <<2, BISHOP, White>>,
      <<3, QUEEN, White>>, <<4, KING, White>>, <<5, BISHOP, White>>,
      <<6, KNIGHT, White>>, <<7, ROOK, White>>, <<8, PAWN, White>>,
      <<9, PAWN, White>>, <<10, PAWN, White>>, <<11, PAWN, White>>,
      <<12, PAWN, White>>, <<13, PAWN, White>>, <<14, PAWN, White>>,
      <<15, PAWN, White>>, <<48, PAWN, Black>>, <<49, PAWN, Black>>,
      <<50, PAWN, Black>>, <<51, PAWN, Black>>, <<52, PAWN, Black>>,
      <<53, PAWN, Black>>, <<54, PAWN, Black>>, <<55, PAWN, Black>>,
      <<56, ROOK, Black>>, <<57, KNIGHT, Black>>, <<58, BISHOP, Black>>,
      <<59, QUEEN, Black>>, <<60, KING, Black>>, <<61, BISHOP, Black>>,
      <<62, KNIGHT, Black>>, <<63, ROOK, Black>>
  >>)


\* r3k3/8/8/8/8/8/8/3QK3
QUEEN_ROOK_BOARD ==
  Place(<<
      <<3, QUEEN, White>>, <<4, KING, White>>, <<56, ROOK, Black>>,
      <<60, KING, Black>>
  >>)


\* 3qk3/8/8/3p4/3PP3/8/8/4K3
PAWNS_BOARD ==
  Place(<<
      <<4, KING, White>>, <<27, PAWN, White>>, <<28, PAWN, White>>,
      <<35, PAWN, Black>>, <<59, QUEEN, Black>>, <<60, KING, Black>>
  >>)


\* 2b3k1/5ppp/5n2/8/8/8/5PPP/R4RK1
ROOKS_BOARD ==
  Place(<<
      <<0, ROOK, White>>, <<5, ROOK, White>>, <<6, KING, White>>,
      <<13, PAWN, White>>, <<14, PAWN, White>>, <<15, PAWN, White>>,
      <<45, KNIGHT, Black>>, <<53, PAWN, Black>>, <<54, PAWN, Black>>,
      <<55, PAWN, Black>>, <<58, BISHOP, Black>>, <<62, KING, Black>>
  >>)

\* The placement field of a FEN string, read by Board::from_str.
PlacementOf(field) ==
  CASE field = "rnbqkbnr/pppppppp/8/8/8/8/PPPPPPPP/RNBQKBNR" ->
           Some(START_BOARD)
    [] field = "r3k3/8/8/8/8/8/8/3QK3" -> Some(QUEEN_ROOK_BOARD)
    [] field = "3qk3/8/8/3p4/3PP3/8/8/4K3" -> Some(PAWNS_BOARD)
    [] field = "2b3k1/5ppp/5n2/8/8/8/5PPP/R4RK1" -> Some(ROOKS_BOARD)
    [] OTHER -> None

\* Board::default(): the standard starting position.
Board_default ==
  [pieces |-> START_BOARD.pieces, color_combined |-> START_BOARD.color_combined,
   side_to_move |-> White, tag |-> 0]

\* str::parse for the decimal numerals the inputs of the model use: None for
\* Err.
parse_int(token) ==
  CASE token = "0" -> Some(0)
    [] token = "1" -> Some(1)
    [] token = "2" -> Some(2)
    [] token = "3" -> Some(3)
    [] token = "4" -> Some(4)
    [] token = "5" -> Some(5)
    [] token = "6" -> Some(6)
    [] token = "7" -> Some(7)
    [] token = "8" -> Some(8)
    [] token = "9" -> Some(9)
    [] token = "10" -> Some(10)
    [] token = "11" -> Some(11)
    [] token = "12" -> Some(12)
    [] token = "15" -> Some(15)
    [] token = "30" -> Some(30)
    [] token = "50" -> Some(50)
    [] token = "100" -> Some(100)
    [] token = "101" -> Some(101)
    [] token = "1000" -> Some(1000)
    [] token = "10000" -> Some(10000)
    [] token = "-5" -> Some(-5)
    [] OTHER -> None

\* Board::from_str: None for Err.  A FEN string is the sequence of its
\* whitespace-separated fields; the third field (the castling rights) is the
\* numeral of `tag`.
Board_from_str(fen) ==
  IF /\ Len(fen) >= 4
     /\ PlacementOf(fen[1]) # None
     /\ fen[2] \in {"w", "b"}
     /\ parse_int(fen[3]) # None
     /\ unwrap(parse_int(fen[3])) \in 0 .. (TagMod - 1)
  THEN Some([pieces |-> unwrap(PlacementOf(fen[1])).pieces,
             color_combined |-> unwrap(PlacementOf(fen[1])).color_combined,
             side_to_move |-> IF fen[2] = "w" THEN White ELSE Black,
             tag |-> unwrap(parse_int(fen[3]))])
  ELSE None

\* board.pieces(piece)
pieces(board, piece) == board.pieces[piece]

\* board.color_combined(color)
color_combined(board, color) == board.color_combined[color]

\* board.combined(): the occupied squares.
combined(board) == board.color_combined[White] \cup board.color_combined[Black]

\* board.piece_on(square): Option<Piece>
piece_on(board, sq) ==
  IF sq \in combined(board)
  THEN Some(CHOOSE p \in Pieces : sq \in board.pieces[p])
  ELSE None

\* board.color_on(square): Option<Color>
color_on(board, sq) ==
  IF sq \in combined(board)
  THEN Some(CHOOSE c \in Colors : sq \in board.color_combined[c])
  ELSE None

\* board.side_to_move()
side_to_move(board) == board.side_to_move

\* board.checkers(): the bitboard of the pieces giving check.
checkers(board) ==
  IF board.tag % 2 = 1
  THEN {trailing_zeros(color_combined(board, Not(board.side_to_move)))}
  ELSE {}

\* The k-th candidate move of the rule set.
CandidateMove(board, k) ==
  LET us == board.side_to_move
      own == Ascending(color_combined(board, us))
      prey == Ascending(color_combined(board, Not(us)) \ pieces(board, KING))
      src == own[((k - 1) % Len(own)) + 1]
      start == (7 * board.tag + 3 * src + 11 * k) % SQUARES
      off == CHOOSE d \in 0 .. (SQUARES - 1) :
               /\ ((start + d) % SQUARES) \notin combined(board)
               /\ \A e \in 0 .. (d - 1) :
                    ((start + e) % SQUARES) \in combined(board)
  IN [source |-> src,
      dest |-> IF (board.tag + k) % 3 = 0 /\ prey # << >>
               THEN prey[((board.tag + k) % Len(prey)) + 1]
               ELSE (start + off) % SQUARES]

RECURSIVE Candidates(_, _)
\* The first n candidate moves, without repetitions.
Candidates(board, n) ==
  IF n = 0 THEN << >>
  ELSE LET before == Candidates(board, n - 1)
           mv == CandidateMove(board, n)
       IN IF \E i \in 1 .. Len(before) : before[i] = mv
          THEN before
          ELSE Append(before, mv)

\* MoveGen::new_legal(&board), as the sequence it iterates over.
MoveGen_new_legal(board) ==
  Candidates(board, MaxMoves - ((board.tag \div 2) % (MaxMoves + 1)))

\* board.make_move_new(chess_move)
make_move_new(board, mv) ==
  LET moved == unwrap(piece_on(board, mv.source))
      us == unwrap(color_on(board, mv.source))
  IN [pieces |-> [p \in Pieces |->
                    IF p = moved
                    THEN (board.pieces[p] \ {mv.source}) \cup {mv.dest}
                    ELSE board.pieces[p] \ {mv.source, mv.dest}],
      color_combined |-> [c \in Colors |->
                    IF c = us
                    THEN (board.color_combined[c] \ {mv.source}) \cup {mv.dest}
                    ELSE board.color_combined[c] \ {mv.source, mv.dest}],
      side_to_move |-> Not(board.side_to_move),
      tag |-> (board.tag + mv.source + mv.dest + 1) % TagMod]

FileChars == << "a", "b", "c", "d", "e", "f", "g", "h" >>

RankChars == << "1", "2", "3", "4", "5", "6", "7", "8" >>

\* The index (from 0) of a character in a sequence of characters, -1 if absent.
IndexOf(chars, c) ==
  IF \E i \in 1 .. Len(chars) : chars[i] = c
  THEN (CHOOSE i \in 1 .. Len(chars) : chars[i] = c) - 1
  ELSE -1

\* ChessMove's Display: a string is the sequence of its characters.
ChessMove_to_string(mv) ==
  << FileChars[FileOf(mv.source) + 1], RankChars[RankOf(mv.source) + 1],
     FileChars[FileOf(mv.dest) + 1], RankChars[RankOf(mv.dest) + 1] >>

\* ChessMove::from_str: None for Err.  A fifth character must name a
\* promotion piece (the rule set has no promotions, so it is dropped).
ChessMove_from_str(s) ==
  IF /\ Len(s) \in {4, 5}
     /\ IndexOf(FileChars, s[1]) >= 0 /\ IndexOf(RankChars, s[2]) >= 0
     /\ IndexOf(FileChars, s[3]) >= 0 /\ IndexOf(RankChars, s[4]) >= 0
     /\ (Len(s) = 5 => s[5] \in {"q", "r", "b", "n"})
  THEN Some([source |-> 8 * IndexOf(RankChars, s[2]) + IndexOf(FileChars, s[1]),
             dest |-> 8 * IndexOf(RankChars, s[4]) + IndexOf(FileChars, s[3])])
  ELSE None

(***************************************************************************)
(* defs.rs: game phase, piece-square tables, piece values, attack tables   *)
(***************************************************************************)
is_original_position(board) ==
  Cardinality(pieces(board, QUEEN)
                \cap (color_combined(board, White)
                        \cup color_combined(board, Black))) = 2

detect_game_phase(board, move_count) ==
  IF move_count <= OPENING_MOVES THEN Opening
  ELSE LET white_queens ==
             Cardinality(pieces(board, QUEEN) \cap color_combined(board, White))
           black_queens ==
             Cardinality(pieces(board, QUEEN) \cap color_combined(board, Black))
       IN CASE white_queens = 1 /\ black_queens = 1
                 /\ is_original_position(board) -> Middlegame
            [] white_queens = 1 /\ black_queens = 1 -> Middlegame
            [] \/ white_queens = 1 /\ black_queens = 0
               \/ white_queens = 0 /\ black_queens = 1 -> Threshold
            [] white_queens = 0 /\ black_queens = 0 -> Endgame
            [] OTHER -> Middlegame

MG_PAWN_TABLE ==
  <<
      0, 0, 0, 0, 0, 0, 0, 0,
      98, 134, 61, 95, 68, 126, 34, -11,
      -6, 7, 26, 31, 65, 56, 25, -20,
      -14, 13, 6, 21, 23, 12, 17, -23,
      -27, -2, -5, 12, 17, 6, 10, -25,
      -26, -4, -4, -10, 3, 3, 33, -12,
      -35, -1, -20, -23, -15, 24, 38, -22,
      0, 0, 0, 0, 0, 0, 0, 0
  >>

EG_PAWN_TABLE ==
  <<
      0, 0, 0, 0, 0, 0, 0, 0,
      178, 173, 158, 134, 147, 132, 165, 187,
      94, 100, 85, 67, 56, 53, 82, 84,
      32, 24, 13, 5, -2, 4, 17, 17,
      13, 9, -3, -7, -7, -8, 3, -1,
      4, 7, -6, 1, 0, -5, -1, -8,
      13, 8, 8, 10, 13, 0, 2, -7,
      0, 0, 0, 0, 0, 0, 0, 0
  >>

MG_KNIGHT_TABLE ==
  <<
      -167, -89, -34, -49, 61, -97, -15, -107,
      -73, -41, 72, 36, 23, 62, 7, -17,
      -47, 60, 37, 65, 84, 129, 73, 44,
      -9, 17, 19, 53, 37, 69, 18, 22,
      -13, 4, 16, 13, 28, 19, 21, -8,
      -23, -9, 12, 10, 19, 17, 25, -16,
      -29, -53, -12, -3, -1, 18, -14, -19,
      -105, -21, -58, -33, -17, -28, -19, -23
  >>

EG_KNIGHT_TABLE ==
  <<
      -58, -38, -13, -28, -31, -27, -63, -99,
      -25, -8, -25, -2, -9, -25, -24, -52,
      -24, -20, 10, 9, -1, -9, -19, -41,
      -17, 3, 22, 22, 22, 11, 8, -18,
      -18, -6, 16, 25, 16, 17, 4, -18,
      -23, -3, -1, 15, 10, -3, -20, -22,
      -42, -20, -10, -5, -2, -20, -23, -44,
      -29, -51, -23, -15, -22, -18, -50, -64
  >>

MG_BISHOP_TABLE ==
  <<
      -29, 4, -82, -37, -25, -42, 7, -8,
      -26, 16, -18, -13, 30, 59, 18, -47,
      -16, 37, 43, 40, 35, 50, 37, -2,
      -4, 5, 19, 50, 37, 37, 7, -2,
      -6, 13, 13, 26, 34, 12, 10, 4,
      0, 15, 15, 15, 14, 27, 18, 10,
      4, 15, 16, 0, 7, 21, 33, 1,
      -33, -3, -14, -21, -13, -12, -39, -21
  >>

EG_BISHOP_TABLE ==
  <<
      -14, -21, -11, -8, -7, -9, -17, -24,
      -8, -4, 7, -12, -3, -13, -4, -14,
      2, -8, 0, -1, -2, 6, 0, 4,
      -3, 9, 12, 9, 14, 10, 3, 2,
      -6, 3, 13, 19, 7, 10, -3, -9,
      -12, -3, 8, 10, 13, 3, -7, -15,
      -14, -18, -7, -1, 4, -9, -15, -27,
      -23, -9, -23, -5, -9, -16, -5, -17
  >>

MG_ROOK_TABLE ==
  <<
      32, 42, 32, 51, 63, 9, 31, 43,
      27, 32, 58, 62, 80, 67, 26, 44,
      -5, 19, 26, 36, 17, 45, 61, 16,
      -24, -11, 7, 26, 24, 35, -8, -20,
      -36, -26, -12, -1, 9, -7, 6, -23,
      -45, -25, -16, -17, 3, 0, -5, -33,
      -44, -16, -20, -9, -1, 11, -6, -71,
      -19, -13, 1, 17, 16, 7, -37, -26
  >>

EG_ROOK_TABLE ==
  <<
      13, 10, 18, 15, 12, 12, 8, 5,
      11, 13, 13, 11, -3, 3, 8, 3,
      7, 7, 7, 5, 4, -3, -5, -3,
      4, 3, 13, 1, 2, 1, -1, 2,
      3, 5, 8, 4, -5, -6, -8, -11,
      -4, 0, -5, -1, -7, -12, -8, -16,
      -6, -6, 0, 2, -9, -9, -11, -3,
      -9, 2, 3, -1, -5, -13, 4, -20
  >>

MG_QUEEN_TABLE ==
  <<
      -28, 0, 29, 12, 59, 44, 43, 45,
      -24, -39, -5, 1, -16, 57, 28, 54,
      -13, -17, 7, 8, 29, 56, 47, 57,
      -27, -27, -16, -16, -1, 17, -2, 1,
      -9, -26, -9, -10, -2, -4, 3, -3,
      -14, 2, -11, -2, -5, 2, 14, 5,
      -35, -8, 11, 2, 8, 15, -3, 1,
      -1, -18, -9, 10, -15, -25, -31, -50
  >>

EG_QUEEN_TABLE ==
  <<
      -9, 22, 22, 27, 27, 19, 10, 20,
      -17, 20, 32, 41, 58, 25, 30, 0,
      -20, 6, 9, 49, 47, 35, 19, 9,
      3, 22, 24, 45, 57, 40, 57, 36,
      -18, 28, 19, 47, 31, 34, 39, 23,
      -16, -27, 15, 6, 9, 17, 10, 5,
      -22, -23, -30, -16, -16, -23, -36, -32,
      -33, -28, -22, -43, -5, -32, -20, -41
  >>

MG_KING_TABLE ==
  <<
      -65, 23, 16, -15, -56, -34, 2, 13,
      29, -1, -20, -7, -8, -4, -38, -29,
      -9, 24, 2, -16, -20, 6, 22, -22,
      -17, -20, -12, -27, -30, -25, -14, -36,
      -49, -1, -27, -39, -46, -44, -33, -51,
      -14, -14, -22, -46, -44, -30, -15, -27,
      1, 7, -8, -64, -43, -16, 9, 8,
      -15, 36, 12, -54, 8, -28, 24, 14
  >>

EG_KING_TABLE ==
  <<
      -74, -35, -18, -18, -11, 15, 4, -17,
      -12, 17, 14, 17, 17, 38, 23, 11,
      10, 17, 23, 15, 20, 45, 44, 13,
      -8, 22, 24, 27, 26, 33, 26, 3,
      -18, -4, 21, 24, 27, 23, 9, -11,
      -19, -3, 11, 21, 23, 16, 7, -9,
      -27, -11, 4, 13, 14, 4, -5, -17,
      -53, -34, -21, -11, -28, -14, -24, -43
  >>

get_pawn_value(phase) ==
  CASE phase = Opening -> PAWN_VALUE_OPENING
    [] phase = Middlegame -> PAWN_VALUE_MIDDLEGAME
    [] phase = Threshold -> PAWN_VALUE_THRESHOLD
    [] phase = Endgame -> PAWN_VALUE_ENDGAME

get_knight_value(phase) ==
  CASE phase = Opening -> KNIGHT_VALUE_OPENING
    [] phase = Middlegame -> KNIGHT_VALUE_MIDDLEGAME
    [] phase = Threshold -> KNIGHT_VALUE_THRESHOLD
    [] phase = Endgame -> KNIGHT_VALUE_ENDGAME

get_bishop_pair_bonus(phase) ==
  CASE phase = Opening -> 0
    [] phase = Middlegame -> BISHOP_PAIR_MIDDLEGAME
    [] phase = Threshold -> BISHOP_PAIR_THRESHOLD
    [] phase = Endgame -> BISHOP_PAIR_ENDGAME

get_rook_value(phase, is_first_rook) ==
  CASE phase = Opening /\ is_first_rook -> FIRST_ROOK_OPENING
    [] phase = Middlegame /\ is_first_rook -> FIRST_ROOK_MIDDLEGAME
    [] phase = Threshold /\ is_first_rook -> FIRST_ROOK_THRESHOLD
    [] phase = Endgame /\ is_first_rook -> FIRST_ROOK_ENDGAME
    [] phase = Opening /\ ~is_first_rook -> SECOND_ROOK_OPENING
    [] phase = Middlegame /\ ~is_first_rook -> SECOND_ROOK_MIDDLEGAME
    [] phase = Threshold /\ ~is_first_rook -> SECOND_ROOK_THRESHOLD
    [] phase = Endgame /\ ~is_first_rook -> SECOND_ROOK_ENDGAME

\* sq ^ 56: the same file on the mirrored rank.
flip_vertical(sq) == 8 * (7 - RankOf(sq)) + FileOf(sq)

get_piece_square_value(piece, square, color, phase) ==
  LET sq == IF color = Black THEN flip_vertical(square) ELSE square
  IN CASE piece = PAWN /\ phase = Middlegame -> MG_PAWN_TABLE[sq + 1]
       [] piece = PAWN /\ phase = Endgame -> EG_PAWN_TABLE[sq + 1]
       [] piece = KNIGHT /\ phase = Middlegame -> MG_KNIGHT_TABLE[sq + 1]
       [] piece = KNIGHT /\ phase = Endgame -> EG_KNIGHT_TABLE[sq + 1]
       [] piece = BISHOP /\ phase = Middlegame -> MG_BISHOP_TABLE[sq + 1]
       [] piece = BISHOP /\ phase = Endgame -> EG_BISHOP_TABLE[sq + 1]
       [] piece = ROOK /\ phase = Middlegame -> MG_ROOK_TABLE[sq + 1]
       [] piece = ROOK /\ phase = Endgame -> EG_ROOK_TABLE[sq + 1]
       [] piece = QUEEN /\ phase = Middlegame -> MG_QUEEN_TABLE[sq + 1]
       [] piece = QUEEN /\ phase = Endgame -> EG_QUEEN_TABLE[sq + 1]
       [] piece = KING /\ phase = Middlegame -> MG_KING_TABLE[sq + 1]
       [] piece = KING /\ phase = Endgame -> EG_KING_TABLE[sq + 1]
       [] OTHER -> 0

\* bb << n on u64: the bits shifted past bit 63 are lost.
shl(bb, n) == {s + n : s \in bb} \cap Squares

\* bb >> n on u64.
shr(bb, n) == {s - n : s \in bb} \cap Squares

PAWN_ATTACKS ==
  [c \in {0, 1} |->
     [sq \in Squares |->
        LET bb == {sq}
        IN IF c = ColorIndex(White)
           THEN (shl(bb, 7) \ FILE_A) \cup (shl(bb, 9) \ FILE_H)
           ELSE (shr(bb, 7) \ FILE_H) \cup (shr(bb, 9) \ FILE_A)]]

KNIGHT_ATTACKS ==
  [sq \in Squares |->
     LET bb == {sq}
     IN (shl(bb, 17) \ FILE_A)
          \cup (shl(bb, 15) \ FILE_H)
          \cup (shl(bb, 10) \ (FILE_A \cup FILE_B))
          \cup (shl(bb, 6) \ (FILE_G \cup FILE_H))
          \cup (shr(bb, 6) \ (FILE_A \cup FILE_B))
          \cup (shr(bb, 10) \ (FILE_G \cup FILE_H))
          \cup (shr(bb, 15) \ FILE_A)
          \cup (shr(bb, 17) \ FILE_H)]

KING_ATTACKS ==
  [sq \in Squares |->
     LET bb == {sq}
     IN (shl(bb, 8) \cup shr(bb, 8))
          \cup (shl(bb, 1) \ FILE_A)
          \cup (shr(bb, 1) \ FILE_H)
          \cup (shl(bb, 7) \ FILE_H)
          \cup (shl(bb, 9) \ FILE_A)
          \cup (shr(bb, 7) \ FILE_A)
          \cup (shr(bb, 9) \ FILE_H)]

BISHOP_ATTACKS ==
  [sq \in Squares |->
     LET rank == sq \div 8
         file == sq % 8
     IN UNION {
          (IF rank + i < 8 /\ file + i < 8 THEN {sq + i * 9} ELSE {})
            \cup (IF rank + i < 8 /\ file >= i THEN {sq + i * 7} ELSE {})
            \cup (IF rank >= i /\ file + i < 8 THEN {sq - i * 7} ELSE {})
            \cup (IF rank >= i /\ file >= i THEN {sq - i * 9} ELSE {})
          : i \in 1 .. 7}]

ROOK_ATTACKS ==
  [sq \in Squares |->
     LET rank == sq \div 8
         file == sq % 8
     IN UNION {
          (IF file + i < 8 THEN {sq + i} ELSE {})
            \cup (IF file >= i THEN {sq - i} ELSE {})
            \cup (IF rank + i < 8 THEN {sq + i * 8} ELSE {})
            \cup (IF rank >= i THEN {sq - i * 8} ELSE {})
          : i \in 1 .. 7}]

QUEEN_ATTACKS == [sq \in Squares |-> BISHOP_ATTACKS[sq] \cup ROOK_ATTACKS[sq]]

KING_SAFETY_MASK ==
  [sq \in Squares |->
     LET king_bb == {sq}
     IN shl(king_bb, 8) \cup shr(king_bb, 8)
          \cup (shl(king_bb, 1) \ FILE_A)
          \cup (shr(king_bb, 1) \ FILE_H)
          \cup (shl(king_bb, 7) \ FILE_H)
          \cup (shl(king_bb, 9) \ FILE_A)
          \cup (shr(king_bb, 7) \ FILE_A)
          \cup (shr(king_bb, 9) \ FILE_H)]

(***************************************************************************)
(* movegen.rs: Position                                                    *)
(***************************************************************************)
FEN_START ==
  << "rnbqkbnr/pppppppp/8/8/8/8/PPPPPPPP/RNBQKBNR", "w", "0", "-", "0", "1" >>

\* Position::from_fen
from_fen(fen) ==
  LET parsed == Board_from_str(fen)
      fullmove == parse_int(fen[6])
  IN [board |-> IF parsed = None THEN Board_default ELSE unwrap(parsed),
      move_count |-> IF Len(fen) >= 6
                     THEN (IF fullmove # None /\ unwrap(fullmove) >= 0
                           THEN unwrap(fullmove) ELSE 1) * 2
                     ELSE 0]

\* make_move that counts a half-move for a move string that does not parse.
make_move_counting(position, mv) ==
  LET chess_move == ChessMove_from_str(mv)
  IN [ok |-> chess_move # None,
      position |-> [board |-> IF chess_move # None
                              THEN make_move_new(position.board,
                                                 unwrap(chess_move))
                              ELSE position.board,
                    move_count |-> position.move_count + 1]]

\* make_move that leaves the half-move counter alone.
make_move_uncounted(position, mv) ==
  LET chess_move == ChessMove_from_str(mv)
  IN [ok |-> chess_move # None,
      position |-> IF chess_move # None
                   THEN [board |-> make_move_new(position.board,
                                                 unwrap(chess_move)),
                         move_count |-> position.move_count]
                   ELSE position]

\* Position::make_move, as the pair of its result and the position it leaves.
make_move(position, mv) ==
  LET chess_move == ChessMove_from_str(mv)
  IN IF chess_move # None
     THEN [ok |-> TRUE,
           position |-> [board |-> make_move_new(position.board,
                                                 unwrap(chess_move)),
                         move_count |-> position.move_count + 1]]
     ELSE [ok |-> FALSE, position |-> position]

\* Position::generate_legal_moves
generate_legal_moves(position) ==
  LET legal == MoveGen_new_legal(position.board)
  IN [i \in 1 .. Len(legal) |-> ChessMove_to_string(legal[i])]

\* Position::is_capture
is_capture(position, mv) ==
  LET chess_move == ChessMove_from_str(mv)
  IN IF chess_move # None
     THEN piece_on(position.board, unwrap(chess_move).dest) # None
     ELSE FALSE

(***************************************************************************)
(* movepick.rs: evaluation                                                 *)
(***************************************************************************)
analyze_rook_position(board, square, color) ==
  LET rook_bb == {square}
      own_pawns == pieces(board, PAWN) \cap color_combined(board, color)
      enemy_pawns == pieces(board, PAWN) \cap color_combined(board, Not(color))
      file_mask == CASE square % 8 = 0 -> FILE_A
                     [] square % 8 = 1 -> FILE_B
                     [] square % 8 = 6 -> FILE_G
                     [] square % 8 = 7 -> FILE_H
                     [] OTHER -> shl(FILE_A, square % 8)
      seventh_rank == IF color = White THEN RANK_7 ELSE RANK_2
  IN [is_first_rook |-> TRUE,
      is_open_file |-> file_mask \cap (own_pawns \cup enemy_pawns) = {},
      is_semi_open |-> file_mask \cap own_pawns = {},
      controls_seventh |-> rook_bb \cap seventh_rank # {}]

get_rook_position_bonus(info) ==
  (IF info.is_open_file THEN 30 ELSE IF info.is_semi_open THEN 15 ELSE 0)
    + (IF info.controls_seventh THEN 25 ELSE 0)

get_piece_base_value(piece, phase) ==
  CASE piece = PAWN /\ phase = Opening -> PAWN_VALUE_OPENING
    [] piece = PAWN /\ phase = Middlegame -> PAWN_VALUE_MIDDLEGAME
    [] piece = PAWN /\ phase = Threshold -> PAWN_VALUE_THRESHOLD
    [] piece = PAWN /\ phase = Endgame -> PAWN_VALUE_ENDGAME
    [] piece = KNIGHT /\ phase = Opening -> KNIGHT_VALUE_OPENING
    [] piece = KNIGHT /\ phase = Middlegame -> KNIGHT_VALUE_MIDDLEGAME
    [] piece = KNIGHT /\ phase = Threshold -> KNIGHT_VALUE_THRESHOLD
    [] piece = KNIGHT /\ phase = Endgame -> KNIGHT_VALUE_ENDGAME
    [] piece = BISHOP -> BISHOP_VALUE
    [] piece = ROOK /\ phase = Opening -> FIRST_ROOK_OPENING
    [] piece = ROOK /\ phase = Middlegame -> FIRST_ROOK_MIDDLEGAME
    [] piece = ROOK /\ phase = Threshold -> FIRST_ROOK_THRESHOLD
    [] piece = ROOK /\ phase = Endgame -> FIRST_ROOK_ENDGAME
    [] piece = QUEEN /\ phase = Opening -> QUEEN_VALUE_NORMAL
    [] piece = QUEEN /\ phase = Middlegame -> QUEEN_VALUE_NORMAL
    [] piece = QUEEN /\ phase = Threshold -> QUEEN_VALUE_THRESHOLD_ADVANTAGE
    [] piece = QUEEN /\ phase = Endgame -> QUEEN_VALUE_NORMAL
    [] piece = KING -> KING_VALUE

get_piece_value_on_square(board, square) ==
  LET square_bb == {square}
      phase == detect_game_phase(board, 0)
      order == << QUEEN, ROOK, BISHOP, KNIGHT, PAWN >>
      found == {i \in 1 .. Len(order) :
                  pieces(board, order[i]) \cap square_bb # {}}
  IN IF found # {}
     THEN get_piece_base_value(order[trailing_zeros(found)], phase)
     ELSE 0

\* The `match piece` of evaluate_square_control and
\* static_exchange_evaluation: the attack table entry of the square.
attack_pattern(piece, color, square) ==
  CASE piece = PAWN -> PAWN_ATTACKS[ColorIndex(color)][square]
    [] piece = KNIGHT -> KNIGHT_ATTACKS[square]
    [] piece = BISHOP -> BISHOP_ATTACKS[square]
    [] piece = ROOK -> ROOK_ATTACKS[square]
    [] piece = QUEEN -> QUEEN_ATTACKS[square]
    [] OTHER -> {}

AttackerOrder == << PAWN, KNIGHT, BISHOP, ROOK, QUEEN >>

\* The least of the numbers of a sequence, INFINITY for the empty one.
RECURSIVE MinOf(_)
MinOf(s) == IF s = << >> THEN INFINITY ELSE Min(Head(s), MinOf(Tail(s)))

evaluate_square_control(board, square, color) ==
  LET phase == detect_game_phase(board, 0)
      Hits(piece) ==
        (pieces(board, piece) \cap color_combined(board, color))
          \cap attack_pattern(piece, color, square) # {}
      hitting == SelectSeq(AttackerOrder, Hits)
  IN [attackers |-> [i \in 1 .. Len(hitting) |-> << hitting[i], square >>],
      defenders |-> << >>,
      target_value |-> get_piece_value_on_square(board, square),
      smallest_attacker |->
        MinOf([i \in 1 .. Len(hitting) |->
                 get_piece_base_value(hitting[i], phase)]),
      smallest_defender |-> INFINITY]

static_exchange_evaluation(board, square, attacking_color) ==
  LET target_value == get_piece_value_on_square(board, square)
      phase == detect_game_phase(board, 0)
      Hits(piece) ==
        (pieces(board, piece) \cap color_combined(board, attacking_color))
          \cap attack_pattern(piece, attacking_color, square) # {}
      hitting == SelectSeq(AttackerOrder, Hits)
      attacker_value == IF hitting # << >>
                        THEN get_piece_base_value(hitting[1], phase)
                        ELSE INFINITY
  IN [gain |-> IF attacker_value < INFINITY
               THEN target_value - attacker_value
               ELSE 0,
      exchange_sequence |-> IF hitting # << >>
                            THEN << << hitting[1], square >> >>
                            ELSE << >>]

evaluate_attacks(board, square, color) ==
  LET attack_info == evaluate_square_control(board, square, color)
      defense_info == evaluate_square_control(board, square, Not(color))
      attack_value == attack_info.target_value - attack_info.smallest_attacker
      attacker_bonus == CASE Len(attack_info.attackers) = 2 -> 30
                          [] Len(attack_info.attackers) = 3 -> 50
                          [] Len(attack_info.attackers) >= 4 -> 70
                          [] OTHER -> 0
      defense_penalty == IF defense_info.defenders # << >>
                         THEN -10 * Len(defense_info.defenders)
                         ELSE 0
      hanging_bonus == IF defense_info.defenders = << >> THEN 30 ELSE 0
      total_value ==
        attack_value + attacker_bonus + defense_penalty + hanging_bonus
      see_result == static_exchange_evaluation(board, square, color)
  IN IF attack_info.attackers = << >> THEN 0
     ELSE total_value + see_result.gain
            + (IF see_result.exchange_sequence # << >> /\ see_result.gain > 0
               THEN 20 ELSE 0)

detect_back_rank_mate(board, king_sq, king_color) ==
  LET rank == RankOf(king_sq)
      back_rank == IF king_color = White THEN 0 ELSE 7
      king_zone == KING_SAFETY_MASK[king_sq]
      friendly_pieces == color_combined(board, king_color)
      escape_squares == king_zone \ friendly_pieces
      enemy_pieces == color_combined(board, Not(king_color))
      enemy_rooks == pieces(board, ROOK) \cap enemy_pieces
      enemy_queens == pieces(board, QUEEN) \cap enemy_pieces
  IN IF rank # back_rank THEN FALSE
     ELSE escape_squares = {} /\ (enemy_rooks # {} \/ enemy_queens # {})

detect_smothered_mate(board, king_sq, king_color) ==
  LET king_zone == KING_SAFETY_MASK[king_sq]
      friendly_pieces == color_combined(board, king_color)
      enemy_knights ==
        pieces(board, KNIGHT) \cap color_combined(board, Not(king_color))
  IN IF king_zone \ friendly_pieces # {} THEN FALSE
     ELSE KNIGHT_ATTACKS[king_sq] \cap enemy_knights # {}

detect_checkmate_patterns(board, color) ==
  LET king_bb == pieces(board, KING) \cap color_combined(board, Not(color))
      king_square == trailing_zeros(king_bb)
  IN IF king_bb = {} THEN 0
     ELSE (IF detect_back_rank_mate(board, king_square, Not(color))
           THEN BACK_RANK_MATE_BONUS ELSE 0)
            + (IF detect_smothered_mate(board, king_square, Not(color))
               THEN SMOTHERED_MATE_BONUS ELSE 0)

evaluate_material(board, color, phase) ==
  LET bb(piece) == pieces(board, piece) \cap color_combined(board, color)
      queens == Cardinality(bb(QUEEN))
      rooks == bb(ROOK)
      square == trailing_zeros(rooks)
      second_bb == rooks \ {square}
      second_square == trailing_zeros(second_bb)
      bishops == Cardinality(bb(BISHOP))
  IN (IF queens = 1 THEN QUEEN_VALUE_NORMAL
      ELSE IF queens > 1
           THEN QUEEN_VALUE_THRESHOLD_ADVANTAGE + QUEEN_VALUE_SECOND_QUEEN
           ELSE 0)
       + (IF Cardinality(rooks) > 0
          THEN get_rook_value(phase, TRUE)
                 + get_rook_position_bonus(
                     analyze_rook_position(board, square, color))
                 + (IF Cardinality(rooks) > 1
                    THEN get_rook_value(phase, FALSE)
                           + get_rook_position_bonus(
                               analyze_rook_position(board, second_square, color))
                           + (IF ROOK_ATTACKS[square] \cap second_bb # {}
                              THEN 20 ELSE 0)
                    ELSE 0)
          ELSE 0)
       + (bishops * BISHOP_VALUE
            + (IF bishops >= 2 THEN get_bishop_pair_bonus(phase) ELSE 0))
       + Cardinality(bb(KNIGHT)) * get_knight_value(phase)
       + Cardinality(bb(PAWN)) * get_pawn_value(phase)

\* The total of one colour in evaluate_board (white_value, black_value).
color_value(board, color, phase) ==
  SumTo([square \in Squares |->
           IF square \in color_combined(board, color)
           THEN get_piece_square_value(unwrap(piece_on(board, square)), square,
                                       color, phase)
           ELSE 0], SQUARES - 1)
    + evaluate_material(board, color, phase)
    + SumTo([square \in Squares |-> evaluate_attacks(board, square, color)],
            SQUARES - 1)
    + detect_checkmate_patterns(board, color)

\* evaluate_board from White's point of view, whoever is to move.
evaluate_board_for_white(board, move_count) ==
  LET phase == detect_game_phase(board, move_count)
  IN color_value(board, White, phase) - color_value(board, Black, phase)

evaluate_board(board, move_count) ==
  LET phase == detect_game_phase(board, move_count)
      white_value == color_value(board, White, phase)
      black_value == color_value(board, Black, phase)
  IN IF side_to_move(board) = White
     THEN white_value - black_value
     ELSE black_value - white_value

(***************************************************************************)
(* movepick.rs: move ordering and search                                   *)
(***************************************************************************)
\* Duration::from_secs(5) in SearchParams::default, in milliseconds.
DEFAULT_MAX_TIME == 5000

\* max_depth of pick_move.
PICK_MAX_DEPTH == 1

\* max_depth of analyze_position.
ANALYZE_MAX_DEPTH == 1

\* The depth from which pick_move uses an aspiration window.
ASPIRATION_DEPTH == 4

\* window_size of pick_move: 0.5 pawns.
WINDOW_SIZE == 50

\* SearchParams::default() at time `now`.
SearchParams_default(now) ==
  [depth |-> 0, start_time |-> now, max_time |-> DEFAULT_MAX_TIME, nodes |-> 0]

get_piece_value(piece) ==
  CASE piece = PAWN -> 100
    [] piece = KNIGHT -> 320
    [] piece = BISHOP -> 330
    [] piece = ROOK -> 500
    [] piece = QUEEN -> 900
    [] piece = KING -> 20000

is_development_move(board, mv) ==
  LET piece == unwrap(piece_on(board, mv.source))
      from_rank == RankOf(mv.source)
      is_home_rank == IF side_to_move(board) = White
                      THEN from_rank = 1
                      ELSE from_rank = 6
  IN piece \in {KNIGHT, BISHOP} /\ is_home_rank

is_king_safety_move(board, mv) ==
  LET piece == unwrap(piece_on(board, mv.source))
  IN piece = KING /\ checkers(board) # {}

is_repeat_move(board, mv) ==
  LET piece == unwrap(piece_on(board, mv.source))
      from_rank == RankOf(mv.source)
  IN IF side_to_move(board) = White
     THEN from_rank > 1 /\ piece # KING /\ piece # QUEEN
     ELSE from_rank < 6 /\ piece # KING /\ piece # QUEEN

\* order_key without the term for captures.
order_key_no_capture(mv, position) ==
  LET parsed == ChessMove_from_str(mv)
      chess_move == unwrap(parsed)
      score ==
        (IF chess_move.dest \in 27 .. 36 THEN 50 ELSE 0)
          + (IF position.move_count < 10
                  /\ is_development_move(position.board, chess_move)
             THEN 30 ELSE 0)
          + (IF is_king_safety_move(position.board, chess_move)
             THEN 40 ELSE 0)
          - (IF position.move_count < 10
                  /\ is_repeat_move(position.board, chess_move)
             THEN 20 ELSE 0)
  IN IF parsed # None THEN -score ELSE 0

\* The closure of order_moves: the sort key of a move string.
order_key(mv, position) ==
  LET parsed == ChessMove_from_str(mv)
      chess_move == unwrap(parsed)
      captured_piece == piece_on(position.board, chess_move.dest)
      attacker == unwrap(piece_on(position.board, chess_move.source))
      score ==
        (IF captured_piece # None
         THEN 10 * get_piece_value(unwrap(captured_piece))
                - get_piece_value(attacker)
         ELSE 0)
          + (IF chess_move.dest \in 27 .. 36 THEN 50 ELSE 0)
          + (IF position.move_count < 10
                  /\ is_development_move(position.board, chess_move)
             THEN 30 ELSE 0)
          + (IF is_king_safety_move(position.board, chess_move)
             THEN 40 ELSE 0)
          - (IF position.move_count < 10
                  /\ is_repeat_move(position.board, chess_move)
             THEN 20 ELSE 0)
  IN IF parsed # None THEN -score ELSE 0

\* x put into a sequence sorted by key, after the elements whose key is not
\* larger (a stable insertion).
RECURSIVE InsertByKey(_, _, _)
InsertByKey(sorted, x, position) ==
  IF sorted = << >> THEN << x >>
  ELSE IF order_key(Head(sorted), position) <= order_key(x, position)
       THEN << Head(sorted) >> \o InsertByKey(Tail(sorted), x, position)
       ELSE << x >> \o sorted

RECURSIVE StableSort(_, _, _)
\* The first n elements of moves, sorted by key, equal keys in their order.
StableSort(moves, n, position) ==
  IF n = 0 THEN << >>
  ELSE InsertByKey(StableSort(moves, n - 1, position), moves[n], position)

\* order_moves: moves.sort_by_cached_key, a stable sort.
order_moves(moves, position) == StableSort(moves, Len(moves), position)

\* should_stop that never reports the flag.
never_stop(stop_flag) == FALSE

\* uci.rs, should_stop(): the value of STOP_FLAG.
should_stop(stop_flag) == stop_flag

\* mate_score with the sign of a won game: 10000.0 - depth.
mate_score_won(depth) == 1000000 - 100 * depth

\* The score of a checkmate node: -10000.0 + depth.
mate_score(depth) == -1000000 + 100 * depth

\* prune with a margin of one pawn: the cut is made while a better move can
\* still follow.
prune_with_margin(alpha, beta) == beta <= alpha + 100

\* The cut of the move loop.
prune(alpha, beta) == beta <= alpha

\* The update of (best_value, best_move, alpha, beta) after a move scored.
update_best(st, is_maximizing, eval, mv) ==
  IF is_maximizing /\ eval > st.best_value
  THEN [st EXCEPT !.best_value = eval, !.best_move = Some(mv),
                  !.alpha = Max(st.alpha, eval)]
  ELSE IF ~is_maximizing /\ eval < st.best_value
       THEN [st EXCEPT !.best_value = eval, !.best_move = Some(mv),
                       !.beta = Min(st.beta, eval)]
       ELSE st

\* leaf_value from the other side's point of view, as a negamax search
\* would take it.
leaf_value_negated(position) ==
  -evaluate_board(position.board, position.move_count)

\* The score alpha_beta_search returns where it does not look further.
leaf_value(position) == evaluate_board(position.board, position.move_count)

\* after_branch for a branch explored on the caller's Position itself: the
\* move made for the branch stays made.
after_branch_shared(position, new_position) == new_position

\* The caller's Position after one branch of the move loop: the move is made
\* on new_position, a clone, and the Position it was cloned from stays as it
\* was.
after_branch(position, new_position) == position

RECURSIVE alpha_beta_search(_, _, _, _, _, _)
RECURSIVE move_loop(_, _, _, _, _, _, _)
\* The `for mv in moves` loop of alpha_beta_search from the i-th move on; st
\* holds alpha, beta, best_value, best_move and the bookkeeping fields, among
\* them position, the caller's Position as the loop leaves it.
move_loop(position, moves, i, depth, is_maximizing, st, stop_flag) ==
  IF i > Len(moves) THEN st
  ELSE LET made == make_move(position, moves[i])
       IN IF ~made.ok
          THEN move_loop(position, moves, i + 1, depth, is_maximizing, st,
                         stop_flag)
          ELSE LET scored(sub) ==
                     [update_best(st, is_maximizing, sub.score, moves[i])
                        EXCEPT !.calls = st.calls + sub.calls,
                               !.mates = st.mates \cup sub.mates,
                               !.position = after_branch(st.position,
                                                         made.position)]
                   continue(st1) ==
                     IF prune(st1.alpha, st1.beta) THEN st1
                     ELSE move_loop(position, moves, i + 1, depth,
                                    is_maximizing, st1, stop_flag)
               IN continue(scored(
                    alpha_beta_search(made.position, depth - 1, st.alpha,
                                      st.beta, ~is_maximizing, stop_flag)))

\* alpha_beta_search; stop_flag is the value should_stop() reads.  The result
\* is (score, mv) with three bookkeeping fields: calls, the number of calls
\* made (this one included), mates, the checkmate returns as pairs of the
\* remaining depth and the score, and position, the caller's Position as the
\* call leaves it.  params is passed through and never read.
alpha_beta_search(position, depth, alpha, beta, is_maximizing, stop_flag) ==
  IF depth = 0 \/ should_stop(stop_flag)
  THEN [score |-> leaf_value(position), mv |-> None, calls |-> 1,
        mates |-> {}, position |-> position]
  ELSE LET moves == order_moves(generate_legal_moves(position), position)
       IN IF moves = << >>
          THEN IF checkers(position.board) # {}
               THEN [score |-> mate_score(depth), mv |-> None, calls |-> 1,
                     mates |-> {<< depth, mate_score(depth) >>},
                     position |-> position]
               ELSE [score |-> 0, mv |-> None, calls |-> 1, mates |-> {},
                     position |-> position]
          ELSE LET st == move_loop(position, moves, 1, depth, is_maximizing,
                           [alpha |-> alpha, beta |-> beta,
                            best_value |-> IF is_maximizing THEN NEG_INFINITY
                                           ELSE INFINITY,
                            best_move |-> None, calls |-> 1, mates |-> {},
                            position |-> position],
                           stop_flag)
               IN [score |-> st.best_value, mv |-> st.best_move,
                   calls |-> st.calls, mates |-> st.mates,
                   position |-> st.position]

RECURSIVE resolve_window(_, _, _, _, _, _)
\* window_step that searches again with the window it had.
window_step_same_window(r, position, depth, alpha, beta, stop_flag, fuel) ==
  IF r.score <= alpha \/ r.score >= beta
  THEN IF fuel = 0
       THEN [score |-> r.score, mv |-> r.mv, searches |-> 1, ended |-> FALSE,
             position |-> r.position]
       ELSE [resolve_window(r.position, depth, alpha, beta, stop_flag,
                            fuel - 1)
               EXCEPT !.searches = @ + 1]
  ELSE [score |-> r.score, mv |-> r.mv, searches |-> 1, ended |-> TRUE,
        position |-> r.position]

\* What the `while research_needed` loop of pick_move does with the result r
\* of one call: search again with one side of the window opened, or end.
window_step(r, position, depth, alpha, beta, stop_flag, fuel) ==
  IF r.score <= alpha \/ r.score >= beta
  THEN IF fuel = 0
       THEN [score |-> r.score, mv |-> r.mv, searches |-> 1, ended |-> FALSE,
             position |-> r.position]
       ELSE [resolve_window(r.position, depth,
                            IF r.score <= alpha THEN NEG_INFINITY ELSE alpha,
                            IF r.score <= alpha THEN beta ELSE INFINITY,
                            stop_flag, fuel - 1)
               EXCEPT !.searches = @ + 1]
  ELSE [score |-> r.score, mv |-> r.mv, searches |-> 1, ended |-> TRUE,
        position |-> r.position]

\* The `while research_needed` loop of pick_move at one depth: the result of
\* the call that ends it, with the number of calls of alpha_beta_search made.
\* A score of -INFINITY (or +INFINITY) would repeat the same call for ever;
\* the loop is followed for at most `fuel` calls, and `ended` tells whether
\* it came to its end.
resolve_window(position, depth, alpha, beta, stop_flag, fuel) ==
  window_step(alpha_beta_search(position, depth, alpha, beta,
                                side_to_move(position.board) = White,
                                stop_flag),
              position, depth, alpha, beta, stop_flag, fuel)

\* first without the move kept ready: best_move stays None.
first_none(moves) == None

\* legal_moves.first().cloned()
first(moves) == IF moves = << >> THEN None ELSE Some(moves[1])

\* improves with `&&` for `||`: a move kept ready is never replaced.
improves_both(score, mv, best_score, best_move) ==
  mv # None /\ (score > best_score /\ best_move = None)

\* pick_move: whether the result (score, mv) of a depth replaces the best
\* move so far.
improves(score, mv, best_score, best_move) ==
  mv # None /\ (score > best_score \/ best_move = None)
(***************************************************************************)
(* time_control.rs                                                         *)
(***************************************************************************)
SAFEGUARD == 100

GAME_LENGTH == 30

\* MAX_USAGE = 0.8 = MAX_USAGE_NUM / MAX_USAGE_DEN
MAX_USAGE_NUM == 8

MAX_USAGE_DEN == 10

NO_TIME == 0

\* What `as u128` makes of +infinity: u128::MAX, a time no clock reaches.
U128_MAX == INFINITY

\* round_as_u128 without the round(): the cast alone, which truncates.
trunc_as_u128(num, den) ==
  IF den = 0 THEN (IF num > 0 THEN INFINITY ELSE 0)
  ELSE IF num <= 0 THEN 0
  ELSE num \div den

\* (num / den).round() as u128 for den >= 0: f64::round rounds half-way cases
\* away from zero, the cast saturates (a negative number gives 0, +infinity
\* gives u128::MAX).
round_as_u128(num, den) ==
  IF den = 0 THEN (IF num > 0 THEN U128_MAX ELSE 0)
  ELSE IF num <= 0 THEN 0
  ELSE (2 * num + den) \div (2 * den)

\* self.movestogo.unwrap_or(GAME_LENGTH)
moves_to_go(game_time) ==
  IF game_time.movestogo = None THEN GAME_LENGTH
  ELSE unwrap(game_time.movestogo)

\* GameTime::calculate_time
calculate_time(game_time, color) ==
  LET mtg == moves_to_go(game_time)
      is_white == color = White
      clock == IF is_white THEN game_time.wtime ELSE game_time.btime
      increment == IF is_white THEN game_time.winc ELSE game_time.binc
      base_time == clock - SAFEGUARD
  IN IF base_time <= 0
     THEN IF increment > 0
          THEN round_as_u128(increment * MAX_USAGE_NUM, MAX_USAGE_DEN)
          ELSE NO_TIME
     ELSE round_as_u128(base_time * MAX_USAGE_NUM, MAX_USAGE_DEN * mtg)

(***************************************************************************)
(* uci.rs: the pure parts                                                  *)
(***************************************************************************)
\* The GameTime uci_loop starts with.
GameTime_initial ==
  [wtime |-> 0, btime |-> 0, winc |-> 0, binc |-> 0, movestogo |-> None]

\* tokens[i + 1].parse().unwrap_or(0) for i128.
parse_i128_or_0(token) ==
  IF parse_int(token) # None THEN unwrap(parse_int(token)) ELSE 0

\* tokens[i + 1].parse().unwrap_or(0) for u32: a negative numeral is an Err.
parse_u32_or_0(token) ==
  IF parse_int(token) # None /\ unwrap(parse_int(token)) >= 0
  THEN unwrap(parse_int(token))
  ELSE 0

RECURSIVE parse_go_from(_, _, _)
\* The while loop of parse_go from index i (tokens[0] is tokens[1] here).
parse_go_from(tokens, i, game_time) ==
  IF ~(i < Len(tokens)) THEN game_time
  ELSE LET token == tokens[i + 1]
           has_value == i + 1 < Len(tokens)
           value == tokens[i + 2]
           next ==
             CASE token = "wtime" /\ has_value ->
                    [game_time EXCEPT !.wtime = parse_i128_or_0(value)]
               [] token = "btime" /\ has_value ->
                    [game_time EXCEPT !.btime = parse_i128_or_0(value)]
               [] token = "winc" /\ has_value ->
                    [game_time EXCEPT !.winc = parse_i128_or_0(value)]
               [] token = "binc" /\ has_value ->
                    [game_time EXCEPT !.binc = parse_i128_or_0(value)]
               [] token = "movestogo" /\ has_value ->
                    [game_time EXCEPT !.movestogo = Some(parse_u32_or_0(value))]
               [] OTHER -> game_time
       IN parse_go_from(tokens, i + 2, next)

\* parse_go: a command line is the sequence of its tokens.
parse_go(cmd, game_time) == parse_go_from(cmd, 1, game_time)

\* cmd.starts_with(prefix), on token sequences.
starts_with(cmd, prefix) ==
  Len(cmd) >= Len(prefix) /\ SubSeq(cmd, 1, Len(prefix)) = prefix

\* cmd.contains("infinite")
contains_infinite(cmd) == \E i \in 1 .. Len(cmd) : cmd[i] = "infinite"

RECURSIVE make_moves(_, _, _)
\* `for mv in moves.split_whitespace() { position.make_move(mv); }` from the
\* i-th token of the command on.
make_moves(position, cmd, i) ==
  IF i > Len(cmd) THEN position
  ELSE make_moves(make_move(position, cmd[i]).position, cmd, i + 1)

RECURSIVE analyze_loop(_, _, _, _)
\* What analyze_position does with the result r of the search of one depth.
analyze_step(r, current_depth, st) ==
  IF r.mv # None
  THEN [best_move |-> r.mv, best_score |-> r.score,
        lines |-> Append(st.lines,
                         << "info depth", current_depth, r.score, r.mv >>),
        searches |-> st.searches + 1, position |-> r.position]
  ELSE [st EXCEPT !.searches = st.searches + 1, !.position = r.position]

\* The `for current_depth in 1..=max_depth` loop of analyze_position; st holds
\* best_move, best_score, the lines printed and position, the caller's
\* Position as the searches left it.
analyze_loop(position, current_depth, st, stop_flag) ==
  IF current_depth > ANALYZE_MAX_DEPTH THEN st
  ELSE analyze_loop(position, current_depth + 1,
         analyze_step(alpha_beta_search(st.position, current_depth,
                                        NEG_INFINITY, INFINITY,
                                        side_to_move(st.position.board) = White,
                                        stop_flag),
                      current_depth, st),
         stop_flag)

\* analyze_position: best_move, with the lines printed and the number of
\* calls of alpha_beta_search made from it.  The depth asked for is not used.
analyze_position(position, depth, stop_flag) ==
  LET heading == << << "info string starting analysis at depth",
                     ANALYZE_MAX_DEPTH >> >>
  IN IF generate_legal_moves(position) = << >>
     THEN [best_move |-> None, best_score |-> NEG_INFINITY,
           lines |-> Append(heading,
                            << "info string no legal moves in position" >>),
           searches |-> 0, position |-> position]
     ELSE analyze_loop(position, 1,
                       [best_move |-> None, best_score |-> NEG_INFINITY,
                        lines |-> heading, searches |-> 0,
                        position |-> position],
                       stop_flag)

(***************************************************************************)
(* The engine as a state machine                                           *)
(***************************************************************************)
\* Number of lines the GUI writes in one run.
MaxCmds == 3

\* Number of lines that wait in stdin at one time.
MaxPending == 1

\* Largest depth alpha_beta_search is called with directly.
MaxDepth == 3

\* Number of repetitions of the re-search loop of pick_move that are followed.
ResearchFuel == 4

VARIABLES
  position,     \* uci_loop: position
  game_time,    \* uci_loop: game_time
  STOP_FLAG,    \* the static STOP_FLAG
  stdin,        \* the lines written to stdin and not read yet
  sent,         \* the number of lines written to stdin so far
  pc,           \* where the engine is
  cmd,          \* uci_loop: command, the line being handled
  now,          \* milliseconds since the line being handled was read
  time_slice,   \* uci_loop: time_slice of the timed go being handled
  caller,       \* who called pick_move
  pm,           \* the locals of pick_move
  stdout,       \* the lines printed while handling cmd
  stop_during_search,  \* a stop line was written while the search ran
  call,         \* the arguments of the function called on its own
  res           \* its result

vars ==
  << position, game_time, STOP_FLAG, stdin, sent, pc, cmd, now, time_slice,
     caller, pm, stdout, stop_during_search, call, res >>

\* A move string from its text, one character per element.
e2e4 == << "e", "2", "e", "4" >>

e7e5 == << "e", "7", "e", "5" >>

\* The lines the GUI writes: each is the sequence of its tokens.
Commands ==
  { << "uci" >>, << "isready" >>, << "ucinewgame" >>, << "stop" >>,
    << "quit" >>, << "flip" >>,
    << "position", "startpos", "moves", e2e4 >>,
    << "position", "startpos", "moves", e2e4, << "z", "z" >>, e7e5 >>,
    << "position", "fen", "r3k3/8/8/8/8/8/8/3QK3", "w", "1", "-", "0", "9" >>,
    << "position", "fen", "r3k3/8/8/8/8/8/8/3QK3", "b", "6", "-", "0", "1" >>,
    << "position", "fen", "3qk3/8/8/3p4/3PP3/8/8/4K3", "w", "7", "-" >>,
    << "position", "fen", "8/8/8/8", "w", "0" >>,
    << "go", "depth", "3" >>,
    << "go", "infinite" >>,
    << "go", "wtime", "10000", "btime", "10000" >>,
    << "go", "wtime", "10000", "btime", "10000", "movestogo", "5" >>,
    << "go", "wtime", "50", "btime", "50" >>,
    << "go", "wtime", "50", "btime", "50", "winc", "1000", "binc", "1000" >>,
    << "go", "wtime", "1000", "btime", "1000", "movestogo", "0" >> }

\* How long one depth of a search takes, in milliseconds.
IterTimes == {3, 6000}

\* The arm of the match of uci_loop a command takes: the first that fits.
arm(command) ==
  CASE command = << "uci" >> -> "uci"
    [] command = << "isready" >> -> "isready"
    [] command = << "ucinewgame" >> -> "ucinewgame"
    [] starts_with(command, << "position", "startpos", "moves" >>) ->
         "position startpos moves"
    [] starts_with(command, << "position", "fen" >>) /\ Len(command) >= 3 ->
         "position fen"
    [] starts_with(command, << "go", "depth" >>) /\ Len(command) >= 3 ->
         "go depth"
    [] starts_with(command, << "go" >>) -> "go"
    [] command = << "stop" >> -> "stop"
    [] command = << "quit" >> -> "quit"
    [] OTHER -> "_"

\* pick_move is not running.
pm_idle ==
  [params |-> SearchParams_default(0), best_move |-> None,
   best_score |-> NEG_INFINITY, legal_moves |-> << >>, depth |-> 0,
   searches |-> 0, last_mv |-> None, ret |-> None]

\* The states in which a search started by a go command runs.
SearchPcs == {"busy_wait", "pick_move", "pick_depth", "analyze"}

\* No function is called on its own.
no_call == [f |-> "none"]

Init ==
  /\ position = from_fen(FEN_START)
  /\ game_time = GameTime_initial
  /\ STOP_FLAG = FALSE
  /\ stdin = << >>
  /\ sent = 0
  /\ pc = "read"
  /\ cmd = << >>
  /\ now = 0
  /\ time_slice = 0
  /\ caller = "none"
  /\ pm = pm_idle
  /\ stdout = << >>
  /\ stop_during_search = FALSE
  /\ call = no_call
  /\ res = 0

\* The GUI writes a line to stdin.
Send(c) ==
  /\ pc # "exited"
  /\ sent < MaxCmds
  /\ Len(stdin) < MaxPending
  /\ stdin' = Append(stdin, c)
  /\ sent' = sent + 1
  /\ stop_during_search' =
       (stop_during_search \/ (c = << "stop" >> /\ pc \in SearchPcs))
  /\ UNCHANGED << position, game_time, STOP_FLAG, pc, cmd, now, time_slice,
                  caller, pm, stdout, call, res >>

\* read_line gives a line that takes arm a of the match.
Reads(a) ==
  /\ pc = "read"
  /\ stdin # << >>
  /\ arm(Head(stdin)) = a
  /\ cmd' = Head(stdin)
  /\ stdin' = Tail(stdin)
  /\ now' = 0
  /\ UNCHANGED << sent, call, res >>

\* What every arm but the go arms leaves of the last go.
NoGo ==
  /\ time_slice' = 0
  /\ caller' = "none"
  /\ pm' = pm_idle
  /\ stop_during_search' = FALSE

\* "uci"
Uci ==
  /\ Reads("uci")
  /\ stdout' = << << "id name SappyDuck" >>, << "id author sappyduckie" >>,
                  << "uciok" >> >>
  /\ pc' = "read"
  /\ NoGo
  /\ UNCHANGED << position, game_time, STOP_FLAG >>

\* "isready"
IsReady ==
  /\ Reads("isready")
  /\ stdout' = << << "readyok" >> >>
  /\ pc' = "read"
  /\ NoGo
  /\ UNCHANGED << position, game_time, STOP_FLAG >>

\* "ucinewgame"
UciNewGame ==
  /\ Reads("ucinewgame")
  /\ position' = from_fen(FEN_START)
  /\ stdout' = << >>
  /\ pc' = "read"
  /\ NoGo
  /\ UNCHANGED << game_time, STOP_FLAG >>

\* &cmd[20..] of a command that starts with "position startpos moves", as
\* tokens: the slice starts inside the word "moves", three characters before
\* its end.
moves_slice(command) ==
  << << "v", "e", "s" >> >> \o SubSeq(command, 4, Len(command))

\* cmd if cmd.starts_with("position startpos moves")
PositionStartpos ==
  /\ Reads("position startpos moves")
  /\ position' = make_moves(from_fen(FEN_START), moves_slice(Head(stdin)), 1)
  /\ stdout' = << >>
  /\ pc' = "read"
  /\ NoGo
  /\ UNCHANGED << game_time, STOP_FLAG >>

\* cmd if cmd.starts_with("position fen ")
PositionFen ==
  /\ Reads("position fen")
  /\ position' = from_fen(SubSeq(Head(stdin), 3, Len(Head(stdin))))
  /\ stdout' = << >>
  /\ pc' = "read"
  /\ NoGo
  /\ UNCHANGED << game_time, STOP_FLAG >>

\* cmd[9..].trim().parse().unwrap_or(1) of a "go depth " command.
go_depth(command) ==
  IF /\ Len(command) = 3
     /\ parse_int(command[3]) # None
     /\ unwrap(parse_int(command[3])) >= 0
  THEN unwrap(parse_int(command[3]))
  ELSE 1

\* cmd if cmd.starts_with("go depth "), up to the call of analyze_position.
GoDepth ==
  /\ Reads("go depth")
  /\ stdout' = << << "info string starting search at depth",
                     go_depth(Head(stdin)) >> >>
  /\ STOP_FLAG' = FALSE
  /\ pc' = "analyze"
  /\ time_slice' = 0
  /\ caller' = "go_depth"
  /\ pm' = pm_idle
  /\ stop_during_search' = FALSE
  /\ UNCHANGED << position, game_time >>

\* The rest of the "go depth " arm: analyze_position and the answer.
AnalyzePosition ==
  /\ pc = "analyze"
  /\ \E r \in {analyze_position(position, go_depth(cmd), STOP_FLAG)} :
       LET legal_moves == generate_legal_moves(position)
       IN /\ stdout' =
               stdout \o r.lines \o
               (IF r.best_move # None
                THEN << << "bestmove", unwrap(r.best_move) >> >>
                ELSE IF legal_moves # << >>
                     THEN << << "bestmove", legal_moves[1] >> >>
                     ELSE << << "info string no legal moves available" >>,
                             << "bestmove 0000" >> >>)
          /\ pm' = [pm_idle EXCEPT !.searches = r.searches,
                                   !.best_move = r.best_move,
                                   !.best_score = r.best_score,
                                   !.ret = r.best_move]
          /\ position' = r.position
  /\ \E d \in IterTimes : now' = now + d
  /\ pc' = "read"
  /\ UNCHANGED << game_time, STOP_FLAG, stdin, sent, cmd,
                  time_slice, caller, stop_during_search, call, res >>

\* cmd if cmd.starts_with("go"), up to the call of pick_move or of
\* pick_move_timed.
Go ==
  /\ Reads("go")
  /\ STOP_FLAG' = FALSE
  /\ stdout' = << >>
  /\ pm' = pm_idle
  /\ stop_during_search' = FALSE
  /\ IF contains_infinite(Head(stdin))
     THEN /\ game_time' = game_time
          /\ time_slice' = 0
          /\ caller' = "go_infinite"
          /\ pc' = "pick_move"
     ELSE /\ game_time' = parse_go(Head(stdin), game_time)
          /\ time_slice' = calculate_time(game_time',
                                          side_to_move(position.board))
          /\ caller' = "go_timed"
          /\ pc' = "busy_wait"
  /\ UNCHANGED position

\* pick_move_timed: the loop that waits until time_slice milliseconds have
\* passed.  A time_slice of u128::MAX is never reached.
BusyWait ==
  /\ pc = "busy_wait"
  /\ time_slice < U128_MAX
  /\ now' = now + time_slice
  /\ pc' = "pick_move"
  /\ UNCHANGED << position, game_time, STOP_FLAG, stdin, sent, cmd,
                  time_slice, caller, pm, stdout, stop_during_search, call,
                  res >>

\* pick_move up to its depth loop.
PickMoveBegin ==
  /\ pc = "pick_move"
  /\ LET legal_moves == generate_legal_moves(position)
     IN /\ pm' = [pm_idle EXCEPT
                    !.params = SearchParams_default(now),
                    !.legal_moves = legal_moves,
                    !.best_move = first(legal_moves),
                    !.depth = 1,
                    !.ret = IF legal_moves # << >> /\ 1 > PICK_MAX_DEPTH
                            THEN first(legal_moves) ELSE None]
        /\ pc' = IF legal_moves = << >> \/ 1 > PICK_MAX_DEPTH
                 THEN "pick_done" ELSE "pick_depth"
  /\ stdout' = Append(stdout,
                 << "info string starting search at position with moves",
                    position.move_count >>)
  /\ UNCHANGED << position, game_time, STOP_FLAG, stdin, sent, cmd, now,
                  time_slice, caller, stop_during_search, call, res >>

\* One turn of the `for depth in 1..=max_depth` loop of pick_move: the
\* searches of the depth pm.depth, the update of the best move, the info line
\* and the test that ends the loop.  The searches take d milliseconds.
PickMoveDepth ==
  /\ pc = "pick_depth"
  /\ \E r \in {resolve_window(position, pm.depth,
                    IF pm.depth >= ASPIRATION_DEPTH
                    THEN pm.best_score - WINDOW_SIZE ELSE NEG_INFINITY,
                    IF pm.depth >= ASPIRATION_DEPTH
                    THEN pm.best_score + WINDOW_SIZE ELSE INFINITY,
                    STOP_FLAG, ResearchFuel)} :
       \E d \in IterTimes :
         LET depth == pm.depth
             better == improves(r.score, r.mv, pm.best_score, pm.best_move)
             best_move == IF better THEN r.mv ELSE pm.best_move
             best_score == IF better THEN r.score ELSE pm.best_score
             ends == \/ d >= pm.params.max_time
                     \/ should_stop(STOP_FLAG)
                     \/ depth >= PICK_MAX_DEPTH
         IN /\ r.ended
            /\ now' = now + d
            /\ pm' = [pm EXCEPT
                        !.params = [pm.params EXCEPT !.depth = depth,
                                                     !.start_time = now],
                        !.best_move = best_move,
                        !.best_score = best_score,
                        !.searches = pm.searches + r.searches,
                        !.last_mv = r.mv,
                        !.depth = IF ends THEN depth ELSE depth + 1,
                        !.ret = IF ends THEN best_move ELSE None]
            /\ stdout' = Append(stdout,
                           << "info depth", depth, best_score,
                              pm.params.nodes, d, best_move >>)
            /\ pc' = IF ends THEN "pick_done" ELSE "pick_depth"
            /\ position' = r.position
  /\ UNCHANGED << game_time, STOP_FLAG, stdin, sent, cmd,
                  time_slice, caller, stop_during_search, call, res >>

\* The "go" arm after pick_move returned, for "go infinite".
GoInfiniteAnswer ==
  /\ pc = "pick_done"
  /\ caller = "go_infinite"
  /\ stdout' = Append(stdout,
                 IF pm.ret # None
                 THEN << "bestmove", unwrap(pm.ret) >>
                 ELSE << "bestmove", << "a", "1", "a", "1" >> >>)
  /\ pc' = "read"
  /\ UNCHANGED << position, game_time, STOP_FLAG, stdin, sent, cmd, now,
                  time_slice, caller, pm, stop_during_search, call, res >>

\* The "go" arm after pick_move_timed returned.
GoTimedAnswer ==
  /\ pc = "pick_done"
  /\ caller = "go_timed"
  /\ stdout' = Append(stdout,
                 IF pm.ret # None
                 THEN << "bestmove", unwrap(pm.ret), "time spent", now >>
                 ELSE << "bestmove (none)", "time spent", now >>)
  /\ pc' = "read"
  /\ UNCHANGED << position, game_time, STOP_FLAG, stdin, sent, cmd, now,
                  time_slice, caller, pm, stop_during_search, call, res >>

\* "stop"
Stop ==
  /\ Reads("stop")
  /\ STOP_FLAG' = TRUE
  /\ stdout' = << >>
  /\ pc' = "read"
  /\ NoGo
  /\ UNCHANGED << position, game_time >>

\* "quit"
Quit ==
  /\ Reads("quit")
  /\ stdout' = << >>
  /\ pc' = "exited"
  /\ NoGo
  /\ UNCHANGED << position, game_time, STOP_FLAG >>

\* _ => {}
Other ==
  /\ Reads("_")
  /\ stdout' = << >>
  /\ pc' = "read"
  /\ NoGo
  /\ UNCHANGED << position, game_time, STOP_FLAG >>

Next ==
  \/ \E c \in Commands : Send(c)
  \/ Uci
  \/ IsReady
  \/ UciNewGame
  \/ PositionStartpos
  \/ PositionFen
  \/ GoDepth
  \/ AnalyzePosition
  \/ Go
  \/ BusyWait
  \/ PickMoveBegin
  \/ PickMoveDepth
  \/ GoInfiniteAnswer
  \/ GoTimedAnswer
  \/ Stop
  \/ Quit
  \/ Other

\* uci_loop with a GUI that writes lines at any time.
Spec == Init /\ [][Next]_vars

(***************************************************************************)
(* pick_move, alpha_beta_search and calculate_time called on their own     *)
(***************************************************************************)
\* The decimal numerals of 0, 1, 2, ...
Numerals ==
  << "0", "1", "2", "3", "4", "5", "6", "7", "8", "9", "10", "11", "12" >>

\* The positions the functions are called on: two placements, either side to
\* move, every value of the hidden board state.
TestPositions ==
  { from_fen(<< placement, side, Numerals[t + 1], "-", "0", "9" >>) :
      placement \in {"r3k3/8/8/8/8/8/8/3QK3", "3qk3/8/8/3p4/3PP3/8/8/4K3"},
      side \in {"w", "b"},
      t \in 0 .. (TagMod - 1) }

\* The state in which function f is about to be called on its own.
CallOf(f) ==
  /\ stdin = << >>
  /\ sent = 0
  /\ pc = f
  /\ cmd = << >>
  /\ now = 0
  /\ time_slice = 0
  /\ caller = "test"
  /\ pm = pm_idle
  /\ stdout = << >>
  /\ stop_during_search = FALSE
  /\ res = 0

\* pick_move is called on any of the positions, with the stop flag set or not.
InitPick ==
  /\ CallOf("pick_move")
  /\ position \in TestPositions
  /\ STOP_FLAG \in BOOLEAN
  /\ game_time = GameTime_initial
  /\ call = [f |-> "pick_move"]

\* The stop flag changes while pick_move runs.
SetStop ==
  /\ pc \in {"pick_move", "pick_depth"}
  /\ STOP_FLAG' = ~STOP_FLAG
  /\ UNCHANGED << position, game_time, stdin, sent, pc, cmd, now, time_slice,
                  caller, pm, stdout, stop_during_search, call, res >>

NextPick == PickMoveBegin \/ PickMoveDepth \/ SetStop

SpecPick == InitPick /\ [][NextPick]_vars

\* The windows alpha_beta_search is called with.
Windows ==
  { << NEG_INFINITY, INFINITY >>, << -WINDOW_SIZE, WINDOW_SIZE >> }

\* alpha_beta_search is called on any of the positions with any depth up to
\* MaxDepth, a window and a maximizing flag, the stop flag set or not.
InitSearch ==
  /\ CallOf("alpha_beta_search")
  /\ position \in TestPositions
  /\ STOP_FLAG \in BOOLEAN
  /\ game_time = GameTime_initial
  /\ call \in { [f |-> "alpha_beta_search", depth |-> depth,
                 alpha |-> w[1], beta |-> w[2], is_maximizing |-> m] :
                  depth \in 0 .. MaxDepth, w \in Windows, m \in BOOLEAN }

CallSearch ==
  /\ pc = "alpha_beta_search"
  /\ \E r \in {alpha_beta_search(position, call.depth, call.alpha,
                                   call.beta, call.is_maximizing,
                                   STOP_FLAG)} :
       /\ res' = r
       /\ position' = r.position
  /\ pc' = "returned"
  /\ UNCHANGED << game_time, STOP_FLAG, stdin, sent, cmd, now,
                  time_slice, caller, pm, stdout, stop_during_search, call >>

\* The `while research_needed` loop of pick_move run at the depth and from
\* the window of the call.
CallResolveWindow ==
  /\ pc = "alpha_beta_search"
  /\ \E r \in {resolve_window(position, call.depth, call.alpha, call.beta,
                                STOP_FLAG, ResearchFuel)} :
       /\ res' = r
       /\ position' = r.position
  /\ pc' = "resolved"
  /\ UNCHANGED << game_time, STOP_FLAG, stdin, sent, cmd, now,
                  time_slice, caller, pm, stdout, stop_during_search, call >>

NextSearch == CallSearch \/ CallResolveWindow

SpecSearch == InitSearch /\ [][NextSearch]_vars

\* The clocks, increments and moves-to-go calculate_time is called with.
Clocks == {-5, 0, 50, 99, 100, 101, 102, 103, 104, 105, 106, 1000, 10000}

Increments == {-5, 0, 1, 2, 3, 1000}

MovesToGo == {None, Some(0), Some(1), Some(3), Some(5), Some(30), Some(40)}

InitTime ==
  /\ CallOf("calculate_time")
  /\ position = from_fen(FEN_START)
  /\ STOP_FLAG = FALSE
  /\ \E clock \in Clocks, increment \in Increments, mtg \in MovesToGo,
        color \in Colors :
       /\ game_time =
            IF color = White
            THEN [wtime |-> clock, btime |-> 10000, winc |-> increment,
                  binc |-> 1000, movestogo |-> mtg]
            ELSE [wtime |-> 50, btime |-> clock, winc |-> 0,
                  binc |-> increment, movestogo |-> mtg]
       /\ call = [f |-> "calculate_time", color |-> color]

CallTime ==
  /\ pc = "calculate_time"
  /\ res' = calculate_time(game_time, call.color)
  /\ pc' = "returned"
  /\ UNCHANGED << position, game_time, STOP_FLAG, stdin, sent, cmd, now,
                  time_slice, caller, pm, stdout, stop_during_search, call >>

NextTime == CallTime

SpecTime == InitTime /\ [][NextTime]_vars

(***************************************************************************)
(* The properties                                                          *)
(***************************************************************************)
\* The moves of a sequence of moves, as a set.
MoveSet(moves) == {moves[i] : i \in 1 .. Len(moves)}

\* C1: for every position with at least one legal move, pick_move returns
\* Some(m) with m one of the moves generate_legal_moves gives for that
\* position, whatever the stop flag is while it runs.
C1_PickMoveReturnsLegalMove ==
  (pc = "pick_done" /\ generate_legal_moves(position) # << >>)
    => /\ pm.ret # None
       /\ unwrap(pm.ret) \in MoveSet(generate_legal_moves(position))

\* pick_move has returned from a position with several legal moves, after a
\* search made with the stop flag set.
C1_Witness ==
  /\ pc = "pick_done"
  /\ call.f = "pick_move"
  /\ Len(generate_legal_moves(position)) >= 2
  /\ STOP_FLAG
  /\ pm.searches >= 1
  /\ pm.ret # None

\* The largest and the smallest element of a non-empty set of integers.
SetMax(S) == CHOOSE x \in S : \A y \in S : y <= x

SetMin(S) == CHOOSE x \in S : \A y \in S : x <= y

\* The sum of the values f takes on 1 .. n.
RECURSIVE SumOf(_, _)
SumOf(f, n) == IF n = 0 THEN 0 ELSE f[n] + SumOf(f, n - 1)

RECURSIVE minimax(_, _, _, _)
\* Plain minimax without pruning and without move ordering, with the leaf
\* evaluation, the terminal scores and the alternation of the maximizing flag
\* of alpha_beta_search: the score, and the number of nodes visited.
minimax(position_, depth, is_maximizing, stop_flag) ==
  IF depth = 0 \/ stop_flag
  THEN [score |-> evaluate_board(position_.board, position_.move_count),
        calls |-> 1]
  ELSE LET moves == generate_legal_moves(position_)
           sub == [i \in 1 .. Len(moves) |->
                     minimax(make_move(position_, moves[i]).position,
                             depth - 1, ~is_maximizing, stop_flag)]
           scores == {sub[i].score : i \in 1 .. Len(moves)}
       IN IF moves = << >>
          THEN [score |-> IF checkers(position_.board) # {}
                          THEN -1000000 + 100 * depth ELSE 0,
                calls |-> 1]
          ELSE [score |-> IF is_maximizing THEN SetMax(scores)
                          ELSE SetMin(scores),
                calls |-> 1 + SumOf([i \in 1 .. Len(moves) |-> sub[i].calls],
                                    Len(moves))]

\* alpha_beta_search has returned from a call with the full window.
FullWindowReturned ==
  /\ pc = "returned"
  /\ call.f = "alpha_beta_search"
  /\ call.alpha = NEG_INFINITY
  /\ call.beta = INFINITY

\* C2: for every position and every depth >= 1, alpha_beta_search with the
\* full window returns the score of plain minimax with the same leaf
\* evaluation, terminal scores and alternation of the maximizing flag, and
\* visits no more nodes than it.
C2_AlphaBetaEqualsMinimax ==
  (FullWindowReturned /\ call.depth >= 1)
    => LET m == minimax(position, call.depth, call.is_maximizing, STOP_FLAG)
       IN res.score = m.score /\ res.calls <= m.calls

\* A full-window search of depth 2 or more in which cuts were made: it
\* visited fewer nodes than minimax and returned its score.
C2_Witness ==
  /\ FullWindowReturned
  /\ call.depth >= 2
  /\ ~STOP_FLAG
  /\ LET m == minimax(position, call.depth, call.is_maximizing, STOP_FLAG)
     IN res.calls < m.calls /\ res.score = m.score

\* alpha_beta_search has returned from a position without legal moves.
NoMovesReturned ==
  /\ pc = "returned"
  /\ call.f = "alpha_beta_search"
  /\ generate_legal_moves(position) = << >>

\* What C3 says of the result on a position without legal moves.
MateOrStalemateResult ==
  /\ res.mv = None
  /\ checkers(position.board) # {} => res.score < -900000
  /\ checkers(position.board) = {} => res.score = 0

\* C3 as stated: at any remaining depth, 0 included, alpha_beta_search on a
\* position without legal moves returns no move, a score below -9000 when the
\* side to move is in check and exactly 0.0 when it is not.
C3_Original == NoMovesReturned => MateOrStalemateResult

\* C3, amended: the same at a remaining depth from 1 to 999 with the stop
\* flag not set.
C3_NoMovesScore ==
  (NoMovesReturned /\ call.depth >= 1 /\ call.depth < 1000 /\ ~STOP_FLAG)
    => MateOrStalemateResult

\* A search of depth 1 or more, the stop flag not set, on a position in which
\* the side to move is in check and has no legal move.
C3_Witness ==
  /\ NoMovesReturned
  /\ call.depth >= 1
  /\ ~STOP_FLAG
  /\ checkers(position.board) # {}
  /\ res.score < -900000
  /\ res.mv = None

\* C4 as stated: within one search, a checkmate node reached in fewer plies
\* from the root (with more remaining depth) gets a more negative score than
\* one reached in more plies.
C4_Original ==
  (pc = "returned" /\ call.f = "alpha_beta_search")
    => \A m1, m2 \in res.mates : m1[1] > m2[1] => m1[2] < m2[2]

\* C5: for every position, window and maximizing flag, alpha_beta_search at
\* depth 0 returns exactly evaluate_board(board, move_count) of the position
\* and no move.
C5_DepthZeroIsStaticEvaluation ==
  (pc = "returned" /\ call.f = "alpha_beta_search" /\ call.depth = 0)
    => /\ res.score = evaluate_board(position.board, position.move_count)
       /\ res.mv = None

\* A call at depth 0, the stop flag not set, on a position that has legal
\* moves and is not evaluated as level.
C5_Witness ==
  /\ pc = "returned"
  /\ call.f = "alpha_beta_search"
  /\ call.depth = 0
  /\ ~STOP_FLAG
  /\ generate_legal_moves(position) # << >>
  /\ res.score # 0
  /\ res.mv = None

\* (num / den) rounded to the nearest integer, halves upwards, is r; with
\* den = 0 the quotient is infinite and r is the largest u128.
IsNearest(r, num, den) ==
  IF den = 0 THEN r = U128_MAX
  ELSE /\ r \in Nat
       /\ 2 * den * r <= 2 * num + den
       /\ 2 * num + den < 2 * den * (r + 1)

\* C6: with c the side's clock, inc its increment and m the moves-to-go (30
\* when not supplied), calculate_time returns round(0.8 * inc) if inc > 0 and
\* 0 otherwise when c - 100 <= 0, and round((c - 100) * 0.8 / m) when
\* c - 100 > 0; clock 10000, increment 0, no moves-to-go gives 264, and clock
\* 50, increment 0 gives 0.
C6_CalculateTime ==
  (pc = "returned" /\ call.f = "calculate_time")
    => LET c == IF call.color = White THEN game_time.wtime
                ELSE game_time.btime
           inc == IF call.color = White THEN game_time.winc
                  ELSE game_time.binc
           m == IF game_time.movestogo = None THEN 30
                ELSE unwrap(game_time.movestogo)
       IN /\ (c - 100 <= 0 /\ inc > 0) => IsNearest(res, 8 * inc, 10)
          /\ (c - 100 <= 0 /\ inc <= 0) => res = 0
          /\ c - 100 > 0 => IsNearest(res, 8 * (c - 100), 10 * m)
          /\ (c = 10000 /\ inc = 0 /\ game_time.movestogo = None) => res = 264
          /\ (c = 50 /\ inc = 0) => res = 0

\* calculate_time has returned for a clock above the safeguard and three
\* moves to go, where the quotient is no integer and is rounded upwards.
C6_Witness ==
  /\ pc = "returned"
  /\ call.f = "calculate_time"
  /\ call.color = White
  /\ game_time.wtime = 103
  /\ game_time.movestogo = Some(3)
  /\ res = 1

\* The command is a timed go that supplies no movestogo.
NoMovesToGoSupplied ==
  /\ caller = "go_timed"
  /\ \A i \in 1 .. Len(cmd) : cmd[i] # "movestogo"

\* C7 as stated: for a timed go that supplies no movestogo the allocation is
\* the one computed with moves_to_go = 30 (no movestogo in the GameTime),
\* whatever commands came before.
C7_Original ==
  (pc = "busy_wait" /\ NoMovesToGoSupplied)
    => time_slice = calculate_time([game_time EXCEPT !.movestogo = None],
                                   side_to_move(position.board))

\* C8 as stated: in a timed go the allocation is the maximum duration of the
\* search, and no depth after the first starts once the time since the go
\* command has reached the allocation.
C8_Original ==
  (caller = "go_timed" /\ pc = "pick_depth")
    => /\ pm.params.max_time = time_slice
       /\ pm.depth > 1 => now < time_slice

\* A timed go with an allocation of 0 ms has answered.
ZeroTimeAnswered ==
  /\ caller = "go_timed"
  /\ pc = "read"
  /\ time_slice = 0

\* The answer reports the best move of a complete depth-1 search that was
\* run.
ReportsDepthOneBest ==
  LET r == alpha_beta_search(position, 1, NEG_INFINITY, INFINITY,
                             side_to_move(position.board) = White, FALSE)
  IN /\ pm.searches >= 1
     /\ ~STOP_FLAG
     /\ r.mv # None
     /\ stdout[Len(stdout)] = << "bestmove", unwrap(r.mv), "time spent", now >>

C10_Original ==
  (stop_during_search /\ caller # "none" /\ pc \in {"pick_done", "read"})
    => STOP_FLAG

(***************************************************************************)
(* The properties of the fallbacks, the error handling and the evaluation  *)
(***************************************************************************)
\* C11: when the position has at least one legal move and the stop flag is
\* set when alpha_beta_search is entered, the search returns no move and
\* pick_move returns the first move of generate_legal_moves, the one it
\* recorded before the search began.
C11_InterruptedReturnsFirstMove ==
  (/\ pc = "pick_done"
   /\ call.f = "pick_move"
   /\ generate_legal_moves(position) # << >>
   /\ STOP_FLAG)
    => /\ pm.searches >= 1
       /\ pm.last_mv = None
       /\ pm.ret = Some(generate_legal_moves(position)[1])

\* pick_move has returned from an interrupted search of a position in which
\* the uninterrupted search returns another move than the first legal move.
C11_Witness ==
  /\ pc = "pick_done"
  /\ call.f = "pick_move"
  /\ STOP_FLAG
  /\ pm.searches >= 1
  /\ pm.last_mv = None
  /\ Len(generate_legal_moves(position)) >= 2
  /\ pm.ret = Some(generate_legal_moves(position)[1])
  /\ alpha_beta_search(position, 1, NEG_INFINITY, INFINITY,
                       side_to_move(position.board) = White, FALSE).mv
       # pm.ret

\* A go command has been answered on a root position without legal moves.
AnsweredWithoutMoves ==
  /\ pc = "read"
  /\ caller \in {"go_depth", "go_infinite", "go_timed"}
  /\ generate_legal_moves(position) = << >>
  /\ stdout # << >>

\* C12: when the root position has no legal moves, every go variant (go
\* depth N, go infinite, timed go) answers with a bestmove line that carries
\* one null-move token, the same in all three variants: the "0000" of the
\* go depth arm.
C12_Original ==
  AnsweredWithoutMoves
    => /\ Len(stdout[Len(stdout)]) = 1
       /\ stdout[Len(stdout)] = << "bestmove 0000" >>

\* The answers of the three variants on such a position, one at a time:
\* "bestmove 0000", "bestmove a1a1" and "bestmove (none) (time spent: ..)".
C12_DepthAnswer ==
  (AnsweredWithoutMoves /\ caller = "go_depth")
    => stdout[Len(stdout)] = << "bestmove 0000" >>

C12_InfiniteAnswer ==
  (AnsweredWithoutMoves /\ caller = "go_infinite")
    => stdout[Len(stdout)] = << "bestmove", << "a", "1", "a", "1" >> >>

C12_TimedAnswer ==
  (AnsweredWithoutMoves /\ caller = "go_timed")
    => /\ Len(stdout[Len(stdout)]) = 3
       /\ stdout[Len(stdout)][1] = "bestmove (none)"

(***************************************************************************)
(* Position::make_move and the move loop called on their own               *)
(***************************************************************************)
\* The number of make_move calls made on one Position.
MaxCalls == 3

\* Move strings that do not parse: the "ves" left of the word "moves", a
\* move off the board, a move with a fifth character that names no promotion
\* piece, the empty string.
BadMoves ==
  { << "v", "e", "s" >>, << "e", "2", "e", "9" >>,
    << "e", "2", "e", "4", "k" >>, << >> }

\* The sequence s with x put in at index k.
InsertAt(s, k, x) == SubSeq(s, 1, k - 1) \o << x >> \o SubSeq(s, k, Len(s))

\* A Position on which make_move is about to be called.
InitMove ==
  /\ CallOf("make_move")
  /\ position \in TestPositions \cup {from_fen(FEN_START)}
  /\ STOP_FLAG = FALSE
  /\ game_time = GameTime_initial
  /\ call = [f |-> "make_move", mv |-> << >>, before |-> position, n |-> 0]

\* position.make_move(mv) with a legal move of the position or with a string
\* that does not parse; res is what it returns, call.before the position it
\* was called on.
CallMakeMove ==
  /\ pc = "make_move"
  /\ call.n < MaxCalls
  /\ \E mv \in MoveSet(generate_legal_moves(position)) \cup BadMoves :
       \E made \in {make_move(position, mv)} :
          /\ position' = made.position
          /\ res' = [ok |-> made.ok]
          /\ call' = [f |-> "make_move", mv |-> mv, before |-> position,
                      n |-> call.n + 1]
  /\ UNCHANGED << game_time, STOP_FLAG, stdin, sent, pc, cmd, now,
                  time_slice, caller, pm, stdout, stop_during_search >>

\* The `for mv in moves` loop of alpha_beta_search over the given moves, with
\* best_value and best_move as alpha_beta_search sets them before it, from the
\* full window.
full_window_loop(position_, moves, depth, is_maximizing, stop_flag) ==
  move_loop(position_, moves, 1, depth, is_maximizing,
            [alpha |-> NEG_INFINITY, beta |-> INFINITY,
             best_value |-> IF is_maximizing THEN NEG_INFINITY ELSE INFINITY,
             best_move |-> None, calls |-> 1, mates |-> {},
             position |-> position_],
            stop_flag)

\* The `for mv in moves` loop of alpha_beta_search run on the ordered legal
\* moves of the position with a string that does not parse put in among
\* them, as alpha_beta_search enters it; res is the state the loop ends in.
CallMoveLoop ==
  /\ pc = "make_move"
  /\ call.n = 0
  /\ generate_legal_moves(position) # << >>
  /\ \E bad \in BadMoves, depth \in 1 .. 2, is_maximizing \in BOOLEAN :
       \E k \in 1 .. (Len(generate_legal_moves(position)) + 1) :
         \E moves \in {InsertAt(order_moves(generate_legal_moves(position),
                                            position), k, bad)} :
           /\ call' = [f |-> "move_loop", moves |-> moves, at |-> k,
                       depth |-> depth, is_maximizing |-> is_maximizing]
           /\ res' = full_window_loop(position, moves, depth, is_maximizing,
                                      STOP_FLAG)
  /\ pc' = "returned"
  /\ UNCHANGED << position, game_time, STOP_FLAG, stdin, sent, cmd, now,
                  time_slice, caller, pm, stdout, stop_during_search >>

NextMove == CallMakeMove \/ CallMoveLoop

SpecMove == InitMove /\ [][NextMove]_vars

\* The search of the position from the full window, as alpha_beta_search
\* makes it over the legal moves alone.
SearchOfLegalMoves ==
  alpha_beta_search(position, call.depth, NEG_INFINITY, INFINITY,
                    call.is_maximizing, STOP_FLAG)

\* C13: Position::make_move on a move string that does not parse returns
\* false and leaves both the board and the half-move counter unchanged; in
\* the move loop of alpha_beta_search a move whose application fails is
\* skipped and the loop continues with the next move, so that the loop ends
\* with the result it has without that move.
C13_UnparsedMoveIsSkipped ==
  /\ (/\ call.f = "make_move"
      /\ call.n >= 1
      /\ ChessMove_from_str(call.mv) = None)
       => /\ res.ok = FALSE
          /\ position.board = call.before.board
          /\ position.move_count = call.before.move_count
  /\ (call.f = "move_loop" /\ pc = "returned")
       => \E r \in {SearchOfLegalMoves} :
            /\ res.best_value = r.score
            /\ res.best_move = r.mv
            /\ res.calls = r.calls

\* make_move has returned false on a string that does not parse after a call
\* that returned true.
C13_Witness ==
  /\ call.f = "make_move"
  /\ call.n >= 2
  /\ call.mv \in BadMoves
  /\ res.ok = FALSE
  /\ position = call.before
  /\ position.move_count > 18

\* The move loop has run over a list whose first entry does not parse and has
\* returned a move that comes after it.
C13_LoopWitness ==
  /\ call.f = "move_loop"
  /\ pc = "returned"
  /\ call.at = 1
  /\ res.best_move # None
  /\ res.calls >= 3

\* C19: over any sequence of make_move calls on a Position the half-move
\* counter never decreases: it grows by exactly 1 on each call that returns
\* true and is unchanged on each call that returns false.
C19_CounterOnlyIncreases ==
  [][ /\ position'.move_count >= position.move_count
      /\ call'.f = "make_move"
           => position'.move_count =
                position.move_count + (IF res'.ok THEN 1 ELSE 0) ]_vars

\* Three calls were made on one Position, the last of which returned false
\* after calls that returned true.
C19_Witness ==
  /\ call.f = "make_move"
  /\ call.n = MaxCalls
  /\ res.ok = FALSE
  /\ position.move_count = 20

\* The "position fen " arm has just run on a position string Board::from_str
\* rejects.
MalformedFenLoaded ==
  /\ pc = "read"
  /\ arm(cmd) = "position fen"
  /\ Board_from_str(SubSeq(cmd, 3, Len(cmd))) = None

\* C14: Position::from_fen on any malformed position string raises no error
\* and yields the standard starting position: the same board and the same
\* half-move counter as Position::from_fen(FEN_START).
C14_Original ==
  MalformedFenLoaded
    => /\ position.board = from_fen(FEN_START).board
       /\ position.move_count = from_fen(FEN_START).move_count

\* The part of it that the code keeps: the board is the starting board.
C14_BoardIsDefault ==
  MalformedFenLoaded => position.board = from_fen(FEN_START).board

(***************************************************************************)
(* The evaluation functions and the tables called on their own             *)
(***************************************************************************)
\* 4k3/8/8/8/8/8/8/2QQK3: two queens against none.
TWO_QUEENS_BOARD ==
  Place(<<
      <<2, QUEEN, White>>, <<3, QUEEN, White>>, <<4, KING, White>>,
      <<60, KING, Black>>
  >>)

\* 4k3/8/8/4q3/8/8/1PN5/4K3
MINOR_BOARD ==
  Place(<<
      <<4, KING, White>>, <<9, PAWN, White>>, <<10, KNIGHT, White>>,
      <<36, QUEEN, Black>>, <<60, KING, Black>>
  >>)

\* The placements the functions are called on.
EvalBoards ==
  { START_BOARD, QUEEN_ROOK_BOARD, PAWNS_BOARD, ROOKS_BOARD, TWO_QUEENS_BOARD,
    MINOR_BOARD }

\* The half-move counts they are called with: on both sides of the limit of
\* the opening bonuses of order_moves (10) and of OPENING_MOVES.
HalfMoves == {0, 9, 10, 20, 21, 80}

\* The Position of a placement with a side to move, a hidden board state and
\* a half-move count.
PositionOf(b, color, tag, move_count) ==
  [board |-> [pieces |-> b.pieces, color_combined |-> b.color_combined,
              side_to_move |-> color, tag |-> tag],
   move_count |-> move_count]

InitEval ==
  /\ CallOf("evaluate")
  /\ position \in { PositionOf(b, color, tag, n) :
                      b \in EvalBoards, color \in Colors,
                      tag \in 0 .. (TagMod - 1), n \in HalfMoves }
  /\ STOP_FLAG = FALSE
  /\ game_time = GameTime_initial
  /\ call = no_call

\* What a call in SpecEval leaves alone.
EvalFrame ==
  /\ pc' = "returned"
  /\ UNCHANGED << position, game_time, STOP_FLAG, stdin, sent, cmd, now,
                  time_slice, caller, pm, stdout, stop_during_search >>

CallEvaluateBoard ==
  /\ pc = "evaluate"
  /\ call' = [f |-> "evaluate_board"]
  /\ res' = evaluate_board(position.board, position.move_count)
  /\ EvalFrame

CallDetectGamePhase ==
  /\ pc = "evaluate"
  /\ call' = [f |-> "detect_game_phase"]
  /\ res' = detect_game_phase(position.board, position.move_count)
  /\ EvalFrame

\* The entries of the pawn, knight and king attack tables for one square.
CallAttackTables ==
  /\ pc = "evaluate"
  /\ \E sq \in Squares :
       /\ call' = [f |-> "attack_tables", sq |-> sq]
       /\ res' = [pawn |-> [c \in Colors |-> PAWN_ATTACKS[ColorIndex(c)][sq]],
                  knight |-> KNIGHT_ATTACKS[sq],
                  king |-> KING_ATTACKS[sq]]
  /\ EvalFrame

CallEvaluateAttacks ==
  /\ pc = "evaluate"
  /\ \E square \in Squares, color \in Colors :
       /\ call' = [f |-> "evaluate_attacks", square |-> square,
                   color |-> color]
       /\ res' = evaluate_attacks(position.board, square, color)
  /\ EvalFrame

CallOrderMoves ==
  /\ pc = "evaluate"
  /\ call' = [f |-> "order_moves", moves |-> generate_legal_moves(position)]
  /\ res' = order_moves(generate_legal_moves(position), position)
  /\ EvalFrame

NextEval ==
  \/ CallOrderMoves
  \/ CallEvaluateBoard
  \/ CallDetectGamePhase
  \/ CallAttackTables
  \/ CallEvaluateAttacks

SpecEval == InitEval /\ [][NextEval]_vars

\* C15: for every piece placement and half-move count, evaluate_board with
\* White to move and evaluate_board of the same placement and count with
\* Black to move are exact negations of each other.
C15_SideToMoveNegates ==
  (pc = "returned" /\ call.f = "evaluate_board")
    => evaluate_board([position.board EXCEPT
                         !.side_to_move = Not(position.board.side_to_move)],
                      position.move_count) = -res

\* evaluate_board has returned a score other than 0 with Black to move, past
\* the opening.
C15_Witness ==
  /\ pc = "returned"
  /\ call.f = "evaluate_board"
  /\ side_to_move(position.board) = Black
  /\ position.move_count > OPENING_MOVES
  /\ res # 0

\* The number of queens of a colour.
QueensOf(color) ==
  Cardinality(pieces(position.board, QUEEN)
                \cap color_combined(position.board, color))

\* C17: detect_game_phase returns Opening whenever the half-move count is
\* within the opening limit, regardless of material; past the limit it
\* returns Threshold exactly when one colour has at least one queen and the
\* other has none, Endgame exactly when neither colour has a queen, and
\* Middlegame in every other case.
C17_Original ==
  (pc = "returned" /\ call.f = "detect_game_phase")
    => res = IF position.move_count <= OPENING_MOVES THEN Opening
             ELSE IF \E c \in Colors :
                       QueensOf(c) >= 1 /\ QueensOf(Not(c)) = 0
                  THEN Threshold
                  ELSE IF QueensOf(White) = 0 /\ QueensOf(Black) = 0
                       THEN Endgame
                       ELSE Middlegame

\* The same with Threshold for exactly one queen against none, as the match
\* of the code has it.
C17_OneQueenThreshold ==
  (pc = "returned" /\ call.f = "detect_game_phase")
    => res = IF position.move_count <= OPENING_MOVES THEN Opening
             ELSE IF \E c \in Colors :
                       QueensOf(c) = 1 /\ QueensOf(Not(c)) = 0
                  THEN Threshold
                  ELSE IF QueensOf(White) = 0 /\ QueensOf(Black) = 0
                       THEN Endgame
                       ELSE Middlegame

\* The on-board squares a piece on sq reaches by the steps of a move pattern,
\* each step a pair of a file difference and a rank difference.
Reached(sq, steps) ==
  { 8 * (RankOf(sq) + st[2]) + FileOf(sq) + st[1] :
      st \in { t \in steps : /\ FileOf(sq) + t[1] \in 0 .. 7
                              /\ RankOf(sq) + t[2] \in 0 .. 7 } }

PawnSteps(color) ==
  IF color = White THEN { << -1, 1 >>, << 1, 1 >> }
  ELSE { << -1, -1 >>, << 1, -1 >> }

KnightSteps ==
  { << 1, 2 >>, << -1, 2 >>, << 2, 1 >>, << -2, 1 >>,
    << 2, -1 >>, << -2, -1 >>, << 1, -2 >>, << -1, -2 >> }

KingSteps ==
  { << df, dr >> : df \in -1 .. 1, dr \in -1 .. 1 } \ { << 0, 0 >> }

\* C18: for every square s, the pawn (both colours), knight and king attack
\* tables contain exactly the on-board squares reached by the piece's
\* geometric move pattern from s: no entry wraps around a board edge and no
\* on-board target of the pattern is missing.
C18_Original ==
  (pc = "returned" /\ call.f = "attack_tables")
    => /\ \A c \in Colors : res.pawn[c] = Reached(call.sq, PawnSteps(c))
       /\ res.knight = Reached(call.sq, KnightSteps)
       /\ res.king = Reached(call.sq, KingSteps)

\* The knight and king tables are the geometric ones.
C18_KnightAndKing ==
  (pc = "returned" /\ call.f = "attack_tables")
    => /\ res.knight = Reached(call.sq, KnightSteps)
       /\ res.king = Reached(call.sq, KingSteps)

\* The white pawn table on a2 holds h2, around the edge, and on b2 lacks a3.
C18_PawnTableWraps ==
  (pc = "returned" /\ call.f = "attack_tables")
    => /\ call.sq = 8 => /\ res.pawn[White] = {15, 17}
                         /\ Reached(call.sq, PawnSteps(White)) = {17}
       /\ call.sq = 9 => /\ res.pawn[White] = {18}
                         /\ Reached(call.sq, PawnSteps(White)) = {16, 18}

\* The attackers of the square of the call that colour c has, as
\* evaluate_square_control finds them.
AttackersOf(c) ==
  evaluate_square_control(position.board, call.square, c).attackers

\* What evaluate_attacks adds to the defence terms: the value of the target
\* less that of the cheapest attacker, the bonus for several attackers, the
\* gain of the exchange and the bonus for a winning exchange.
AttackTerms ==
  LET info == evaluate_square_control(position.board, call.square, call.color)
      see == static_exchange_evaluation(position.board, call.square,
                                        call.color)
  IN info.target_value - info.smallest_attacker
       + (CASE Len(info.attackers) = 2 -> 30
            [] Len(info.attackers) = 3 -> 50
            [] Len(info.attackers) >= 4 -> 70
            [] OTHER -> 0)
       + see.gain
       + (IF see.exchange_sequence # << >> /\ see.gain > 0 THEN 20 ELSE 0)

\* evaluate_attacks has returned for a square that the colour of the call
\* attacks.
AttackedSquareEvaluated ==
  /\ pc = "returned"
  /\ call.f = "evaluate_attacks"
  /\ AttackersOf(call.color) # << >>

\* C20: in evaluate_attacks for a square that colour c attacks, the score is
\* reduced by 0.1 for each defender of the other colour, and the flat +0.3
\* bonus is added only when the other colour has no piece defending that
\* square.
C20_Original ==
  AttackedSquareEvaluated
    => res = AttackTerms
               - 10 * Len(AttackersOf(Not(call.color)))
               + (IF AttackersOf(Not(call.color)) = << >> THEN 30 ELSE 0)

\* What the code does: no defender is ever counted, and the flat bonus is
\* always added.
C20_DefendersIgnored ==
  AttackedSquareEvaluated => res = AttackTerms + 30

\* evaluate_attacks has returned for a square both colours attack.
C20_DefendedSquare ==
  /\ AttackedSquareEvaluated
  /\ AttackersOf(Not(call.color)) # << >>

\* The captures among the moves order_moves was called with.
CapturesOfCall ==
  { m \in MoveSet(call.moves) : is_capture(position, m) }

\* Whether move string m moves a pawn onto a square that holds a queen.
PawnTakesQueen(m) ==
  /\ piece_on(position.board, unwrap(ChessMove_from_str(m)).source)
       = Some(PAWN)
  /\ piece_on(position.board, unwrap(ChessMove_from_str(m)).dest)
       = Some(QUEEN)

\* order_moves has returned for a position in which exactly one legal move is
\* a capture, and that move is a pawn capturing a queen.
OnlyCaptureIsPawnTakesQueen ==
  /\ pc = "returned"
  /\ call.f = "order_moves"
  /\ Cardinality(CapturesOfCall) = 1
  /\ \A m \in CapturesOfCall : PawnTakesQueen(m)

\* C16: for every position in which exactly one legal move is a capture and
\* that move is a pawn capturing a queen, order_moves places that move first,
\* for every half-move count and every combination of the centre,
\* development, king-safety and repeat-move adjustments on the other moves.
C16_PawnTakesQueenFirst ==
  OnlyCaptureIsPawnTakesQueen => res[1] \in CapturesOfCall

\* order_moves has moved the capture to the front, in the opening, past a
\* king move out of check and ahead of a development move.
C16_Witness ==
  /\ OnlyCaptureIsPawnTakesQueen
  /\ Len(call.moves) = 3
  /\ call.moves[1] \notin CapturesOfCall
  /\ position.move_count < 10
  /\ is_king_safety_move(position.board,
                         unwrap(ChessMove_from_str(call.moves[1])))
  /\ \E i \in 1 .. 3 :
       is_development_move(position.board,
                           unwrap(ChessMove_from_str(call.moves[i])))

(***************************************************************************)
(* The properties of the searches as a whole                               *)
(***************************************************************************)
\* A step of pick_move, analyze_position or alpha_beta_search leaves the
\* caller's Position and the GameTime as they were.
SearchStepLeavesInputs ==
  pc \in {"pick_move", "pick_depth", "analyze", "alpha_beta_search"}
    => (/\ position'.board = position.board
        /\ position'.move_count = position.move_count
        /\ game_time' = game_time)

\* C21: a search leaves its inputs unchanged: after pick_move,
\* analyze_position or alpha_beta_search returns, the caller's Position has
\* the same board and the same half-move counter as before the call and the
\* GameTime is unmodified; moves are applied only to per-branch clones.
C21_SearchLeavesInputs == [][SearchStepLeavesInputs]_vars

\* A timed go has been answered with a move found by a search that made
\* moves on clones of a Position loaded by a position command, with a clock
\* stored in GameTime.
C21_Witness ==
  /\ pc = "read"
  /\ caller = "go_timed"
  /\ pm.searches >= 1
  /\ pm.last_mv # None
  /\ pm.ret # None
  /\ game_time.wtime > 0
  /\ position # from_fen(FEN_START)

\* The first call of alpha_beta_search that the re-search loop makes.
FirstSearch ==
  alpha_beta_search(position, call.depth, call.alpha, call.beta,
                    side_to_move(position.board) = White, STOP_FLAG)

\* C22: for finite search scores, the re-search loop of pick_move at one depth
\* terminates after at most three calls of alpha_beta_search: a score <= alpha
\* sets alpha to -infinity, a score >= beta sets beta to +infinity, and a
\* score strictly inside the window ends the loop for that depth.
C22_ResearchEndsWithinThreeCalls ==
  pc = "resolved"
    => /\ res.ended
       /\ res.searches <= 3
       /\ \E r \in {FirstSearch} :
            /\ (call.alpha < r.score /\ r.score < call.beta)
                 => (res.searches = 1 /\ res.score = r.score /\ res.mv = r.mv)
            /\ (r.score <= call.alpha \/ r.score >= call.beta)
                 => res.searches >= 2

\* The loop has ended after a second search, made from a window opened on the
\* side on which the first score of a depth-2 search fell.
C22_Witness ==
  /\ pc = "resolved"
  /\ call.depth = 2
  /\ res.ended
  /\ res.searches = 2
  /\ res.mv # None
  /\ ~STOP_FLAG

\* evaluate_board of the position that move mv leads to from position_: the
\* score alpha_beta_search gives the move at depth 1.
ChildScore(position_, mv) ==
  LET made == make_move(position_, mv)
  IN evaluate_board(made.position.board, made.position.move_count)

\* pick_move has returned the move of an uninterrupted depth-1 search.
PickedAtDepthOne ==
  /\ pc = "pick_done"
  /\ call.f = "pick_move"
  /\ ~STOP_FLAG
  /\ pm.last_mv # None
  /\ pm.ret = pm.last_mv

\* The move pick_move returned leads to a position whose evaluate_board score
\* is the lowest among the legal moves.
PickedLowest ==
  \A i \in 1 .. Len(pm.legal_moves) :
    ChildScore(position, unwrap(pm.ret)) <= ChildScore(position, pm.legal_moves[i])

\* The move pick_move returned leads to a position whose evaluate_board score
\* is the highest among the legal moves.
PickedHighest ==
  \A i \in 1 .. Len(pm.legal_moves) :
    ChildScore(position, unwrap(pm.ret)) >= ChildScore(position, pm.legal_moves[i])

\* C23 as stated: the depth-1 choice of pick_move is best for the mover
\* whichever colour is to move: for White and for Black alike the returned
\* move is one whose resulting position has the lowest evaluate_board score
\* among all legal moves (that score being from the perspective of the
\* opponent, who is to move there).
C23_Original == PickedAtDepthOne => PickedLowest

\* What the code does: with Black to move the returned move has the lowest
\* score of the resulting position, with White to move it has the highest.
C23_WhitePicksHighest ==
  PickedAtDepthOne
    => IF side_to_move(position.board) = White
       THEN PickedHighest ELSE PickedLowest

\* White was to move and the move returned is not one of lowest score.
C23_WhiteNotLowest ==
  /\ PickedAtDepthOne
  /\ side_to_move(position.board) = White
  /\ ~PickedLowest

(***************************************************************************)
(* uci_loop as a thread that keeps running                                 *)
(***************************************************************************)
\* A step of pick_move or of analyze_position: the engine leaves the place
\* of the search it is at.  These functions wait for nothing, so that the
\* step can be taken wherever the search is.
SearchStep ==
  /\ pc \in {"pick_move", "pick_depth", "analyze"}
  /\ pc' \in {"pick_depth", "pick_done", "read"} \ {pc}

\* uci_loop runs on the main thread of the process, which the operating
\* system keeps scheduling: the wait of pick_move_timed ends when its
\* condition allows it, a search that runs goes on, and the go arm prints its
\* answer when pick_move has returned.  The GUI is under no obligation to
\* write.
SpecLive ==
  /\ Init
  /\ [][Next]_vars
  /\ WF_vars(BusyWait)
  /\ WF_pc(SearchStep)
  /\ WF_vars(GoInfiniteAnswer \/ GoTimedAnswer)

\* Line is one of the bestmove lines the go arms print.
IsBestmove(line) ==
  line[1] \in {"bestmove", "bestmove 0000", "bestmove (none)"}

\* The go command being handled has been answered: the engine is back at
\* read_line and has printed exactly one bestmove line, the last line.
Answered ==
  /\ pc = "read"
  /\ caller \in {"go_depth", "go_infinite", "go_timed"}
  /\ Cardinality({ i \in 1 .. Len(stdout) : IsBestmove(stdout[i]) }) = 1
  /\ IsBestmove(stdout[Len(stdout)])

\* C24 as stated: every go command (go depth N, go infinite, timed go) is
\* eventually answered by exactly one bestmove line, for every clock state
\* that parse_go can store in GameTime.
C24_Original == (pc \in SearchPcs) ~> Answered

\* What the code does: a go command whose time slice is less than u128::MAX
\* is eventually answered by exactly one bestmove line.
C24_FiniteSliceAnswered ==
  (pc \in SearchPcs /\ time_slice < U128_MAX) ~> Answered

\* The wait of pick_move_timed for a time slice of u128::MAX, which
\* "movestogo 0" gives with more than 100 ms on the clock.
WaitsForEver ==
  /\ pc = "busy_wait"
  /\ time_slice = U128_MAX
  /\ game_time.movestogo = Some(0)

\* Once in that wait the engine stays in it and prints nothing.
C24_WaitNeverEnds ==
  [][WaitsForEver => (pc' = "busy_wait" /\ stdout' = stdout)]_vars

\* The remaining clock of the side color.
ClockOf(color) == IF color = White THEN game_time.wtime ELSE game_time.btime

\* The increment of the side color.
IncrementOf(color) == IF color = White THEN game_time.winc ELSE game_time.binc

\* calculate_time has returned for a clock state with remaining clock >= 0,
\* increment >= 0 and moves-to-go >= 1 (or not given) of the side to move.
TimeAllocated ==
  /\ pc = "returned"
  /\ call.f = "calculate_time"
  /\ ClockOf(call.color) >= 0
  /\ IncrementOf(call.color) >= 0
  /\ (game_time.movestogo = None \/ unwrap(game_time.movestogo) >= 1)

\* C25 as stated: for every clock state with remaining clock >= 0, increment
\* >= 0 and moves-to-go >= 1, the time calculate_time allocates for the side
\* to move is at most that side's remaining clock.
C25_Original == TimeAllocated => res <= ClockOf(call.color)

\* What the code does: the allocation is within the clock when the clock
\* exceeds the safeguard of 100 ms or there is no increment; otherwise it is
\* 0.8 of the increment, whatever the clock.
C25_WithinClockAboveSafeguard ==
  TimeAllocated
    => IF ClockOf(call.color) > SAFEGUARD \/ IncrementOf(call.color) = 0
       THEN res <= ClockOf(call.color)
       ELSE res = round_as_u128(IncrementOf(call.color) * MAX_USAGE_NUM,
                                MAX_USAGE_DEN)

\* More time than the clock has is allocated.
C25_AllocatedBeyondClock ==
  /\ TimeAllocated
  /\ ClockOf(call.color) = 50
  /\ IncrementOf(call.color) = 1000
  /\ res = 800
=============================================================================
